---- MODULE Spec2Model ----
(***************************************************************************)
(* State-machine model of the santa_rules table plugin of the osquery      *)
(* Santa extension (src/src/santarulestable.cpp) together with the rule    *)
(* collection of santa.cpp (src/unnamed/part_003).                         *)
(*                                                                         *)
(* C++ std::string values are modelled as sequences of one-character       *)
(* strings, so that length tests, character-class tests, concatenation,    *)
(* number formatting and number parsing are computed as the code does.     *)
(***************************************************************************)
EXTENDS Integers, Sequences, FiniteSets, TLC

(***************************************************************************)
(* Bounds of the model.                                                    *)
(***************************************************************************)
\* longest rules table of the external store that is explored
MaxStore == 2
\* number of rowIDs the process may mint in an explored run
MaxRowID == 3
\* number of rowIDs the counter of an old process is short of 2^32 when its
\* run is taken up
NearWrap == 2
\* number of concurrent callers of the table instance
NumCallers == 2
\* most lines the log directory holds, and most archives
MaxLines == 2
MaxArchives == 2

(***************************************************************************)
(* Program constants.                                                      *)
(***************************************************************************)
\* The integers of the model checker are 32 bits wide and signed.  A RowID
\* (std::uint32_t) v is held as the integer with the same 32 bits: v below
\* 2^31, v - 2^32 from there on, so that 4294967295 is -1 and generator++
\* takes it to 0.  Where its value matters it is read in 16-bit limbs, as
\* is an unsigned long long (four limbs).
Limb == 65536
\* length of a SHA-256 digest in hexadecimal, required of binary identifiers
Sha256HexLength == 64
\* number of columns of an insert payload
ColumnCount == 4

(***************************************************************************)
(* String literals of the source.                                          *)
(***************************************************************************)
S_binary == <<"b", "i", "n", "a", "r", "y">>
S_certificate == <<"c", "e", "r", "t", "i", "f", "i", "c", "a", "t", "e">>
S_teamid == <<"t", "e", "a", "m", "i", "d">>
S_signingid == <<"s", "i", "g", "n", "i", "n", "g", "i", "d">>
S_cdhash == <<"c", "d", "h", "a", "s", "h">>
S_unknown == <<"u", "n", "k", "n", "o", "w", "n">>
S_allow == <<"a", "l", "l", "o", "w">>
S_block == <<"b", "l", "o", "c", "k">>
S_whitelist == <<"w", "h", "i", "t", "e", "l", "i", "s", "t">>
S_blacklist == <<"b", "l", "a", "c", "k", "l", "i", "s", "t">>
S_rule == <<"r", "u", "l", "e">>
S_optRemove == <<"-", "-", "r", "e", "m", "o", "v", "e">>
S_optAllow == <<"-", "-", "a", "l", "l", "o", "w">>
S_optBlock == <<"-", "-", "b", "l", "o", "c", "k">>
S_optIdentifier == <<"-", "-", "i", "d", "e", "n", "t", "i", "f", "i", "e", "r">>
S_optMessage == <<"-", "-", "m", "e", "s", "s", "a", "g", "e">>
S_dashes == <<"-", "-">>
kMandatoryRuleDeletionError == <<"F", "a", "i", "l", "e", "d", " ", "t", "o", " ", "m", "o", "d", "i", "f", "y", " ", "r", "u", "l", "e", "s", ":", " ", "A", " ", "r", "e", "q", "u", "i", "r", "e", "d", " ", "r", "u", "l", "e", " ", "w", "a", "s", " ", "r", "e", "q", "u", "e", "s", "t", "e", "d", " ", "t", "o", " ", "b", "e", " ", "d", "e", "l", "e", "t", "e", "d">>
HexDigits == <<"0", "1", "2", "3", "4", "5", "6", "7", "8", "9", "a", "b", "c", "d", "e", "f">>
DecDigits == <<"0", "1", "2", "3", "4", "5", "6", "7", "8", "9">>
DecDigitChars == {DecDigits[i] : i \in DOMAIN DecDigits}

(***************************************************************************)
(* Helpers on strings and sequences.                                       *)
(***************************************************************************)
Range(s) == {s[i] : i \in DOMAIN s}

\* n copies of the character c
Rep(c, n) == [i \in 1..n |-> c]

\* value of a decimal digit character
DigitValue(c) == (CHOOSE i \in DOMAIN DecDigits : DecDigits[i] = c) - 1

\* std::string::find_first_not_of(chars) != npos
HasCharNotIn(s, chars) == s \notin Seq(Range(chars))

\* std::string::find(prefix) == 0
StartsWith(s, prefix) ==
  /\ Len(s) >= Len(prefix)
  /\ SubSeq(s, 1, Len(prefix)) = prefix

\* the elements of the finite set S of numbers in ascending order
RECURSIVE Ascending(_)
Ascending(S) ==
  IF S = {} THEN <<>>
  ELSE LET x == CHOOSE x \in S : \A y \in S : x <= y
       IN <<x>> \o Ascending(S \ {x})

\* the limbs of a RowID, least significant first
RowIDLimbs(r) == <<r % Limb, (r \div Limb) % Limb>>

\* a < b as std::uint32_t values
RowIDLess(a, b) ==
  \/ RowIDLimbs(a)[2] < RowIDLimbs(b)[2]
  \/ RowIDLimbs(a)[2] = RowIDLimbs(b)[2] /\ RowIDLimbs(a)[1] < RowIDLimbs(b)[1]

\* the decimal digits of the value hi * 2^16 + lo
RECURSIVE DecimalOfLimbs(_, _)
DecimalOfLimbs(hi, lo) ==
  LET mid == (hi % 10) * Limb + lo
  IN IF hi = 0 /\ lo < 10 THEN <<DecDigits[lo + 1]>>
     ELSE DecimalOfLimbs(hi \div 10, mid \div 10) \o <<DecDigits[(mid % 10) + 1]>>

\* std::to_string of a RowID
to_string(r) == DecimalOfLimbs(RowIDLimbs(r)[2], RowIDLimbs(r)[1])

(***************************************************************************)
(* santa.cpp: names of rule types and states.                              *)
(***************************************************************************)
\* RuleEntry::Type and RuleEntry::State
RuleTypes == {"Binary", "Certificate", "TeamID", "SigningID", "CDHash", "Unknown"}
RuleStates == {"Whitelist", "Blacklist", "Unknown"}

getRuleTypeName(type) ==
  CASE type = "Binary" -> S_binary
    [] type = "Certificate" -> S_certificate
    [] type = "TeamID" -> S_teamid
    [] type = "SigningID" -> S_signingid
    [] type = "CDHash" -> S_cdhash
    [] OTHER -> S_unknown

getRuleStateName(state) ==
  CASE state = "Whitelist" -> S_allow
    [] state = "Blacklist" -> S_block
    [] OTHER -> S_unknown

getTypeFromRuleName(name) ==
  IF name = S_certificate THEN "Certificate"
  ELSE IF name = S_binary THEN "Binary"
  ELSE IF name = S_teamid THEN "TeamID"
  ELSE IF name = S_signingid THEN "SigningID"
  ELSE IF name = S_cdhash THEN "CDHash"
  ELSE "Unknown"

getStateFromRuleName(name) ==
  IF name = S_blacklist \/ name = S_block THEN "Blacklist"
  ELSE IF name = S_whitelist \/ name = S_allow THEN "Whitelist"
  ELSE "Unknown"

(***************************************************************************)
(* Values that may be absent: a SQL column (argv[i] may be a null          *)
(* pointer) or a JSON array element (IsNull()).                            *)
(***************************************************************************)
Null == [null |-> TRUE, s |-> <<>>]
Str(s) == [null |-> FALSE, s |-> s]

\* unordered_map::insert: an existing key keeps its value
MapInsert(m, k, v) == IF k \in DOMAIN m THEN m ELSE m @@ (k :> v)

\* the empty unordered_map
EmptyMap == <<>>

(***************************************************************************)
(* santa.cpp: collecting the rules of the external store.                  *)
(***************************************************************************)
\* std::atoi on a column text: optional sign, then the leading digits
RECURSIVE atoiDigits(_, _, _)
atoiDigits(s, i, acc) ==
  IF i > Len(s) \/ s[i] \notin DecDigitChars THEN acc
  ELSE atoiDigits(s, i + 1, acc * 10 + DigitValue(s[i]))

atoi(s) ==
  IF Len(s) > 0 /\ s[1] = "-" THEN 0 - atoiDigits(s, 2, 0)
  ELSE IF Len(s) > 0 /\ s[1] = "+" THEN atoiDigits(s, 2, 0)
  ELSE atoiDigits(s, 1, 0)

\* one row of "SELECT <id column>, state, type, custommsg FROM rules"
rulesCallback(argv) ==
  LET type_val == IF argv[3].null THEN 0 ELSE atoi(argv[3].s)
  IN [identifier |-> argv[1].s,
      state |-> IF Len(argv[2].s) > 0 /\ argv[2].s[1] = "1"
                THEN "Whitelist" ELSE "Blacklist",
      type |-> CASE type_val = 1000 -> "Binary"
                 [] type_val = 2000 -> "Certificate"
                 [] type_val = 3000 -> "SigningID"
                 [] type_val = 4000 -> "TeamID"
                 [] type_val = 500 -> "CDHash"
                 [] OTHER -> "Unknown",
      custom_message |-> IF argv[4].null THEN <<>> ELSE argv[4].s]

\* where a collection can go wrong, and whether sqlite3_close succeeds;
\* rows is the number of rows the query delivers before it reports an error
CollectStages == {"none", "src_open", "dst_open", "db_open", "schema", "no_id_column", "exec"}

CollectFaults(rows_in_store) ==
  {[stage |-> st, rows |-> 0, close_ok |-> TRUE] :
      st \in {"src_open", "dst_open", "db_open", "schema", "no_id_column"}}
  \cup {[stage |-> "exec", rows |-> n, close_ok |-> c] :
          n \in 0..rows_in_store, c \in BOOLEAN}
  \cup {[stage |-> "none", rows |-> rows_in_store, close_ok |-> c] : c \in BOOLEAN}

\* collectSantaRules over the rows of the store, under the given fault:
\* ok is the return value, response the list handed back
collectSantaRules(rows, fault) ==
  IF fault.stage \in {"src_open", "dst_open", "db_open", "schema", "no_id_column"}
  THEN [ok |-> FALSE, response |-> <<>>]
  ELSE LET delivered == IF fault.stage = "exec"
                        THEN SubSeq(rows, 1, fault.rows) ELSE rows
       IN [ok |-> fault.close_ok,
           response |-> [i \in DOMAIN delivered |-> rulesCallback(delivered[i])]]

\* one fault for every return value and list collectSantaRules can hand back
\* over these rows: a handler meets a fault through them only
FaultsInEffect(rows) ==
  LET faults == CollectFaults(Len(rows))
  IN {CHOOSE fault \in faults : collectSantaRules(rows, fault) = collected :
        collected \in {collectSantaRules(rows, fault) : fault \in faults}}

\* one fault for every way the collection of these rows can fail
FailingFaults(rows) ==
  {fault \in FaultsInEffect(rows) : ~collectSantaRules(rows, fault).ok}

(***************************************************************************)
(* santarulestable.cpp: row identifiers and primary keys.                  *)
(***************************************************************************)
\* generateRowID returning the generator without the ++
generateRowID_noIncrement(gen) == [value |-> gen, next |-> gen]

\* generateRowID: the value handed out and the generator after generator++
generateRowID(gen) ==
  [value |-> gen,
   next |-> IF RowIDLimbs(gen) = <<Limb - 1, (Limb \div 2) - 1>>
            THEN (0 - (Limb \div 2)) * Limb
            ELSE gen + 1]

generatePrimaryKey(identifier, type) ==
  identifier \o <<"_">> \o getRuleTypeName(type)

generatePrimaryKeyOfRule(rule) == generatePrimaryKey(rule.identifier, rule.type)

\* what a search over a map yields: the end iterator, or the entry of a rowID
EndIterator == [found |-> FALSE, rowid |-> 0]
EntryAt(r) == [found |-> TRUE, rowid |-> r]

\* std::find_if over old_rowid_mappings, visited in the given order
RECURSIVE find_if(_, _, _, _)
find_if(mappings, order, i, primary_key) ==
  IF i > Len(order) THEN EndIterator
  ELSE IF mappings[order[i]] = primary_key THEN EntryAt(order[i])
  ELSE find_if(mappings, order, i + 1, primary_key)

\* the iteration orders an unordered_map may present.  find_if and the
\* search loop of insert stop at the first rowID carrying the key they look
\* for, so two orders differ in effect only in which rowID of each key comes
\* first: one order is kept for every such choice
IterationOrders(m) ==
  LET keys == {m[r] : r \in DOMAIN m}
      firsts == {f \in [keys -> DOMAIN m] : \A k \in keys : m[f[k]] = k}
  IN {Ascending({f[k] : k \in keys})
        \o Ascending(DOMAIN m \ {f[k] : k \in keys}) : f \in firsts}

\* the loop of updateRules over new_rule_list[i..]
RECURSIVE updateRulesLoop(_, _, _, _, _, _, _)
updateRulesLoop(new_rule_list, i, old_rowid_mappings, order, rtp, rl, gen) ==
  IF i > Len(new_rule_list)
  THEN [rowid_to_pkey |-> rtp, rule_list |-> rl, generator |-> gen]
  ELSE LET new_rule == new_rule_list[i]
           primary_key == generatePrimaryKeyOfRule(new_rule)
           it == find_if(old_rowid_mappings, order, 1, primary_key)
           minted == generateRowID(gen)
           rowid == IF it.found THEN it.rowid ELSE minted.value
           gen2 == IF it.found THEN gen ELSE minted.next
       IN updateRulesLoop(new_rule_list, i + 1, old_rowid_mappings, order,
                          MapInsert(rtp, rowid, primary_key),
                          MapInsert(rl, primary_key, new_rule),
                          gen2)

\* updateRules clearing the two maps before the collection is known to
\* have succeeded
updateRules_clearsBeforeCollecting(d, gen, collected, order) ==
  LET r == updateRulesLoop(collected.response, 1, d.rowid_to_pkey, order,
                           EmptyMap, EmptyMap, gen)
  IN [ok |-> collected.ok, rowid_to_pkey |-> r.rowid_to_pkey,
      rule_list |-> r.rule_list, generator |-> r.generator]

\* updateRules without the rowid_to_pkey.clear() that precedes the loop: the
\* mapping is rebuilt on top of the entries of the old one
updateRules_mappingNotCleared(d, gen, collected, order) ==
  IF ~collected.ok
  THEN [ok |-> FALSE, rowid_to_pkey |-> d.rowid_to_pkey,
        rule_list |-> d.rule_list, generator |-> gen]
  ELSE LET r == updateRulesLoop(collected.response, 1, d.rowid_to_pkey, order,
                                d.rowid_to_pkey, EmptyMap, gen)
       IN [ok |-> TRUE, rowid_to_pkey |-> r.rowid_to_pkey,
           rule_list |-> r.rule_list, generator |-> r.generator]

\* updateRules: d is the PrivateData (rowid_to_pkey, rule_list), gen the
\* rowID generator, collected the outcome of collectSantaRules, order the
\* iteration order of the old mapping
updateRules(d, gen, collected, order) ==
  IF ~collected.ok
  THEN [ok |-> FALSE, rowid_to_pkey |-> d.rowid_to_pkey,
        rule_list |-> d.rule_list, generator |-> gen]
  ELSE LET r == updateRulesLoop(collected.response, 1, d.rowid_to_pkey, order,
                                EmptyMap, EmptyMap, gen)
       IN [ok |-> TRUE, rowid_to_pkey |-> r.rowid_to_pkey,
           rule_list |-> r.rule_list, generator |-> r.generator]

(***************************************************************************)
(* utils.cpp: what one ExecuteProcess call can yield.  started is the      *)
(* return value; a call that fails leaves the zero-initialised output.     *)
(***************************************************************************)
S_someError == <<"e", "r", "r">>

ProcessOutcomes ==
  {[started |-> FALSE, exit_code |-> 0, std_output |-> <<>>],
   [started |-> TRUE, exit_code |-> 0, std_output |-> <<>>],
   [started |-> TRUE, exit_code |-> 1, std_output |-> S_someError],
   [started |-> TRUE, exit_code |-> 1, std_output |-> kMandatoryRuleDeletionError]}

ProcessSucceeded(proc) == proc.started /\ proc.exit_code = 0

(***************************************************************************)
(* The environment of one handler call: whether santactl exists at         *)
(* kSantactlPath, what the santactl process yields, the fault met by the   *)
(* rule collection, and the orders in which the old mapping (order) and    *)
(* the refreshed mapping (order2) are iterated.  A handler consults the    *)
(* environment only as far as it gets; the parts it does not reach hold    *)
(* the placeholders below.                                                 *)
(***************************************************************************)
NoProcess == [started |-> FALSE, exit_code |-> -1, std_output |-> <<>>]
NoFault == [stage |-> "not consulted", rows |-> 0, close_ok |-> TRUE]

Env(present, proc, fault, order, order2) ==
  [present |-> present, proc |-> proc, fault |-> fault,
   order |-> order, order2 |-> order2]

(***************************************************************************)
(* santarulestable.cpp: validation of an insert payload.  A payload is     *)
(* the outcome of rapidjson parsing: parse_error, is_array, and the        *)
(* elements of the array (null or string).                                 *)
(***************************************************************************)
\* GetRowData without the checks of the identifier, the type and the state
\* that follow the three null checks
GetRowData_valuesNotChecked(json) ==
  IF json.parse_error \/ ~json.is_array
  THEN [ok |-> FALSE, message |-> "Invalid json received by osquery", row |-> EmptyMap]
  ELSE IF Len(json.elems) # ColumnCount
  THEN [ok |-> FALSE, message |-> "Wrong column count", row |-> EmptyMap]
  ELSE IF json.elems[1].null \/ json.elems[2].null \/ json.elems[3].null
  THEN [ok |-> FALSE, message |-> "Missing value", row |-> EmptyMap]
  ELSE [ok |-> TRUE, message |-> "OK",
        row |-> [custom_message |-> IF json.elems[4].null THEN <<>> ELSE json.elems[4].s,
                 identifier |-> json.elems[1].s,
                 type |-> json.elems[3].s,
                 state |-> json.elems[2].s]]

\* GetRowData whose binary branch checks the characters of the identifier
\* but not its length
GetRowData_binaryLengthNotChecked(json) ==
  IF json.parse_error \/ ~json.is_array
  THEN [ok |-> FALSE, message |-> "Invalid json received by osquery", row |-> EmptyMap]
  ELSE IF Len(json.elems) # ColumnCount
  THEN [ok |-> FALSE, message |-> "Wrong column count", row |-> EmptyMap]
  ELSE IF json.elems[1].null \/ json.elems[2].null \/ json.elems[3].null
  THEN [ok |-> FALSE, message |-> "Missing value", row |-> EmptyMap]
  ELSE
    LET custom_message == IF json.elems[4].null THEN <<>> ELSE json.elems[4].s
        identifier == json.elems[1].s
        type == json.elems[3].s
        state == json.elems[2].s
        row4 == [custom_message |-> custom_message, identifier |-> identifier,
                 type |-> type, state |-> state]
    IN IF \/ type \in {S_binary, S_cdhash, S_certificate}
             /\ HasCharNotIn(identifier, HexDigits)
          \/ type = S_teamid /\ identifier = <<>>
          \/ type = S_signingid /\ (":" \notin Range(identifier) \/ identifier = <<>>)
          \/ type \notin {S_binary, S_cdhash, S_teamid, S_signingid, S_certificate}
          \/ state \notin {S_whitelist, S_blacklist, S_allow, S_block}
       THEN [ok |-> FALSE, message |-> "Invalid value", row |-> row4]
       ELSE [ok |-> TRUE, message |-> "OK", row |-> row4]

GetRowData(json) ==
  IF json.parse_error \/ ~json.is_array
  THEN [ok |-> FALSE, message |-> "Invalid json received by osquery", row |-> EmptyMap]
  ELSE IF Len(json.elems) # ColumnCount
  THEN [ok |-> FALSE, message |-> "Wrong column count", row |-> EmptyMap]
  ELSE IF json.elems[1].null
  THEN [ok |-> FALSE, message |-> "Missing 'identifier' value", row |-> EmptyMap]
  ELSE IF json.elems[2].null
  THEN [ok |-> FALSE, message |-> "Missing 'state' value", row |-> EmptyMap]
  ELSE IF json.elems[3].null
  THEN [ok |-> FALSE, message |-> "Missing 'type' value", row |-> EmptyMap]
  ELSE
    LET custom_message == IF json.elems[4].null THEN <<>> ELSE json.elems[4].s
        identifier == json.elems[1].s
        type == json.elems[3].s
        state == json.elems[2].s
        row3 == [custom_message |-> custom_message, identifier |-> identifier,
                 type |-> type]
        row4 == [custom_message |-> custom_message, identifier |-> identifier,
                 type |-> type, state |-> state]
    IN IF type = S_binary
          /\ (Len(identifier) # Sha256HexLength \/ HasCharNotIn(identifier, HexDigits))
       THEN [ok |-> FALSE, message |-> "Invalid 'identifier' value for binary rule", row |-> row3]
       ELSE IF type = S_cdhash /\ HasCharNotIn(identifier, HexDigits)
       THEN [ok |-> FALSE, message |-> "Invalid 'identifier' value for cdhash rule", row |-> row3]
       ELSE IF type = S_teamid /\ identifier = <<>>
       THEN [ok |-> FALSE, message |-> "Invalid 'identifier' value for teamid rule", row |-> row3]
       ELSE IF type = S_signingid /\ (":" \notin Range(identifier) \/ identifier = <<>>)
       THEN [ok |-> FALSE, message |-> "Invalid 'identifier' value for signingid rule, expected format: TeamID:BundleID",
             row |-> row3]
       ELSE IF type = S_certificate /\ HasCharNotIn(identifier, HexDigits)
       THEN [ok |-> FALSE, message |-> "Invalid 'identifier' value for certificate rule - must contain only hex characters",
             row |-> row3]
       ELSE IF type \notin {S_binary, S_cdhash, S_teamid, S_signingid, S_certificate}
       THEN [ok |-> FALSE, message |-> "Invalid 'type' value, must be one of: binary, certificate, teamid, signingid, cdhash",
             row |-> row3]
       ELSE IF state # S_whitelist /\ state # S_blacklist
               /\ state # S_allow /\ state # S_block
       THEN [ok |-> FALSE, message |-> "Invalid 'state' value, must be one of: whitelist, blacklist, allow, block",
             row |-> row4]
       ELSE [ok |-> TRUE, message |-> "OK", row |-> row4]

(***************************************************************************)
(* What a handler hands back and leaves behind: its result (status, id,    *)
(* message, rows), the maps and the generator it leaves, the santactl      *)
(* invocations it made (exec), whether it refreshed ("none", "ok",         *)
(* "failed"), and the rowIDs it synthesized.                               *)
(***************************************************************************)
Outcome(status, id, message, rows, m, gen, exec, refresh, synth) ==
  [status |-> status, id |-> id, message |-> message, rows |-> rows,
   rowid_to_pkey |-> m.rowid_to_pkey, rule_list |-> m.rule_list,
   generator |-> gen, exec |-> exec, refresh |-> refresh, synth |-> synth]

\* the id of a result that carries none
NoId == <<>>

\* the "message" of a result: its fixed text and the captured output appended
Message(text, detail) == [text |-> text, detail |-> detail]
NoMessage == Message("", <<>>)

(***************************************************************************)
(* santarulestable.cpp: rules read.                                        *)
(***************************************************************************)
\* the rows formatted from the copies of the two maps
generateRows(rtp, rl) ==
  {[rowid |-> to_string(r),
    identifier |-> rl[rtp[r]].identifier,
    state |-> getRuleStateName(rl[rtp[r]].state),
    type |-> getRuleTypeName(rl[rtp[r]].type),
    custom_message |-> rl[rtp[r]].custom_message] :
      r \in {x \in DOMAIN rtp : rtp[x] \in DOMAIN rl}}

\* the sentinel row of a read whose refresh failed
FailureRows == {[status |-> "failure"]}

\* generate: one rules read in the environment env
generate(m, gen, store_rows, env) ==
  LET u == updateRules(m, gen, collectSantaRules(store_rows, env.fault), env.order)
  IN IF ~u.ok
     THEN Outcome("failure", NoId, NoMessage, FailureRows, u, u.generator, <<>>,
                  "failed", {})
     ELSE Outcome("success", NoId, NoMessage,
                  generateRows(u.rowid_to_pkey, u.rule_list),
                  u, u.generator, <<>>, "ok", {})

\* the environments of a handler that goes straight to updateRules, its
\* collection meeting one of the given faults
RefreshEnvs(faults, m) ==
  LET orders == IterationOrders(m.rowid_to_pkey)
  IN {Env(TRUE, NoProcess, fault, order, <<>>) :
        fault \in faults, order \in orders}

(***************************************************************************)
(* santarulestable.cpp: insert.                                            *)
(***************************************************************************)
\* the santactl arguments of an add
insertArgs(state_arg, rule_type, identifier, custom_message) ==
  <<S_rule, state_arg>>
  \o (IF rule_type = S_binary THEN <<S_optIdentifier, identifier>>
      ELSE IF rule_type \in {S_certificate, S_teamid, S_signingid, S_cdhash}
      THEN <<S_optIdentifier, identifier, S_dashes \o rule_type>>
      ELSE <<>>)
  \o (IF custom_message # <<>> THEN <<S_optMessage, custom_message>> ELSE <<>>)

\* the search loop of insert over d->rowid_to_pkey, visited in the given
\* order: the first rowID whose key, type and state match, or the end
RECURSIVE insertSearch(_, _, _, _, _, _, _)
insertSearch(rtp, rl, order, i, primary_key, enum_type, state) ==
  IF i > Len(order) THEN EndIterator
  ELSE IF rtp[order[i]] = primary_key
          /\ primary_key \in DOMAIN rl
          /\ rl[primary_key].type = enum_type
          /\ rl[primary_key].state = state
       THEN EntryAt(order[i])
       ELSE insertSearch(rtp, rl, order, i + 1, primary_key, enum_type, state)

\* the end of insert, after a successful updateRules left u: find the rule
\* or synthesize an entry
insertReconcile(u, row, order, args) ==
  LET enum_type == getTypeFromRuleName(row.type)
      primary_key == generatePrimaryKey(row.identifier, enum_type)
      state == getStateFromRuleName(row.state)
      found == insertSearch(u.rowid_to_pkey, u.rule_list, order, 1,
                            primary_key, enum_type, state)
      minted == generateRowID(u.generator)
      new_rule == [identifier |-> row.identifier, type |-> enum_type,
                   state |-> state, custom_message |-> row.custom_message]
      synthetic_key == generatePrimaryKeyOfRule(new_rule)
      synthesized == [rowid_to_pkey |-> MapInsert(u.rowid_to_pkey, minted.value, synthetic_key),
                      rule_list |-> MapInsert(u.rule_list, synthetic_key, new_rule)]
  IN IF found.found
     THEN Outcome("success", to_string(found.rowid), NoMessage, {}, u, u.generator,
                  <<args>>, "ok", {})
     ELSE Outcome("success", to_string(minted.value), NoMessage, {}, synthesized,
                  minted.next, <<args>>, "ok", {minted.value})

\* insert taking only the legacy name "whitelist" for an allow rule when it
\* chooses the santactl argument
insert_allowNotWhitelist(m, gen, store_rows, json, env) ==
  LET v == GetRowData(json)
      row == v.row
      whitelist == row.state = S_whitelist
      state_arg == IF whitelist THEN S_optAllow ELSE S_optBlock
      args == insertArgs(state_arg, row.type, row.identifier, row.custom_message)
      u == updateRules(m, gen, collectSantaRules(store_rows, env.fault), env.order)
  IN IF ~v.ok
     THEN Outcome("failure", NoId, NoMessage, {}, m, gen, <<>>, "none", {})
     ELSE IF ~env.present
     THEN Outcome("failure", NoId, Message("santactl not found", <<>>), {}, m, gen,
                  <<>>, "none", {})
     ELSE IF ~env.proc.started
     THEN Outcome("failure", NoId, Message("Failed to execute santactl process", <<>>),
                  {}, m, gen, <<args>>, "none", {})
     ELSE IF env.proc.exit_code # 0
     THEN Outcome("failure", NoId,
                  Message("santactl command failed: ", env.proc.std_output),
                  {}, m, gen, <<args>>, "none", {})
     ELSE IF ~u.ok
     THEN Outcome("failure", NoId,
                  Message("Failed to update rules: Failed to enumerate the Santa rules", <<>>),
                  {}, u, u.generator, <<args>>, "failed", {})
     ELSE insertReconcile(u, row, env.order2, args)

\* insert without the test that santactl exists at kSantactlPath
insert_santactlNotChecked(m, gen, store_rows, json, env) ==
  LET v == GetRowData(json)
      row == v.row
      whitelist == row.state = S_whitelist \/ row.state = S_allow
      state_arg == IF whitelist THEN S_optAllow ELSE S_optBlock
      args == insertArgs(state_arg, row.type, row.identifier, row.custom_message)
      u == updateRules(m, gen, collectSantaRules(store_rows, env.fault), env.order)
  IN IF ~v.ok
     THEN Outcome("failure", NoId, NoMessage, {}, m, gen, <<>>, "none", {})
     ELSE IF ~env.proc.started
     THEN Outcome("failure", NoId, Message("Failed to execute santactl process", <<>>),
                  {}, m, gen, <<args>>, "none", {})
     ELSE IF env.proc.exit_code # 0
     THEN Outcome("failure", NoId,
                  Message("santactl command failed: ", env.proc.std_output),
                  {}, m, gen, <<args>>, "none", {})
     ELSE IF ~u.ok
     THEN Outcome("failure", NoId,
                  Message("Failed to update rules: Failed to enumerate the Santa rules", <<>>),
                  {}, u, u.generator, <<args>>, "failed", {})
     ELSE insertReconcile(u, row, env.order2, args)

\* insert without the test of the exit code of santactl
insert_exitCodeIgnored(m, gen, store_rows, json, env) ==
  LET v == GetRowData(json)
      row == v.row
      whitelist == row.state = S_whitelist \/ row.state = S_allow
      state_arg == IF whitelist THEN S_optAllow ELSE S_optBlock
      args == insertArgs(state_arg, row.type, row.identifier, row.custom_message)
      u == updateRules(m, gen, collectSantaRules(store_rows, env.fault), env.order)
  IN IF ~v.ok
     THEN Outcome("failure", NoId, NoMessage, {}, m, gen, <<>>, "none", {})
     ELSE IF ~env.present
     THEN Outcome("failure", NoId, Message("santactl not found", <<>>), {}, m, gen,
                  <<>>, "none", {})
     ELSE IF ~env.proc.started
     THEN Outcome("failure", NoId, Message("Failed to execute santactl process", <<>>),
                  {}, m, gen, <<args>>, "none", {})
     ELSE IF ~u.ok
     THEN Outcome("failure", NoId,
                  Message("Failed to update rules: Failed to enumerate the Santa rules", <<>>),
                  {}, u, u.generator, <<args>>, "failed", {})
     ELSE insertReconcile(u, row, env.order2, args)

\* insert: one insert of the payload json in the environment env
insert(m, gen, store_rows, json, env) ==
  LET v == GetRowData(json)
      row == v.row
      whitelist == row.state = S_whitelist \/ row.state = S_allow
      state_arg == IF whitelist THEN S_optAllow ELSE S_optBlock
      args == insertArgs(state_arg, row.type, row.identifier, row.custom_message)
      u == updateRules(m, gen, collectSantaRules(store_rows, env.fault), env.order)
  IN IF ~v.ok
     THEN Outcome("failure", NoId, NoMessage, {}, m, gen, <<>>, "none", {})
     ELSE IF ~env.present
     THEN Outcome("failure", NoId, Message("santactl not found", <<>>), {}, m, gen,
                  <<>>, "none", {})
     ELSE IF ~env.proc.started
     THEN Outcome("failure", NoId, Message("Failed to execute santactl process", <<>>),
                  {}, m, gen, <<args>>, "none", {})
     ELSE IF env.proc.exit_code # 0
     THEN Outcome("failure", NoId,
                  Message("santactl command failed: ", env.proc.std_output),
                  {}, m, gen, <<args>>, "none", {})
     ELSE IF ~u.ok
     THEN Outcome("failure", NoId,
                  Message("Failed to update rules: Failed to enumerate the Santa rules", <<>>),
                  {}, u, u.generator, <<args>>, "failed", {})
     ELSE insertReconcile(u, row, env.order2, args)

\* the environments of an insert, each as far as an insert can consult it,
\* its collection meeting one of the given faults
InsertEnvs(faults, m, gen, store_rows) ==
  LET orders == IterationOrders(m.rowid_to_pkey)
  IN {Env(FALSE, NoProcess, NoFault, <<>>, <<>>)}
     \cup {Env(TRUE, proc, NoFault, <<>>, <<>>) :
             proc \in {p \in ProcessOutcomes : ~ProcessSucceeded(p)}}
     \cup UNION {
            {Env(TRUE, proc, fault, order, order2) :
               order2 \in
                 LET u == updateRules(m, gen, collectSantaRules(store_rows, fault), order)
                 IN IF u.ok THEN IterationOrders(u.rowid_to_pkey) ELSE {<<>>}} :
            proc \in {p \in ProcessOutcomes : ProcessSucceeded(p)},
            fault \in faults,
            order \in orders}

(***************************************************************************)
(* santarulestable.cpp: delete_.                                           *)
(***************************************************************************)
\* isspace characters skipped by strtoull
Whitespace == {" "}

\* index of the first character of s at or after i that is not whitespace
RECURSIVE skipSpace(_, _)
skipSpace(s, i) ==
  IF i <= Len(s) /\ s[i] \in Whitespace THEN skipSpace(s, i + 1) ELSE i

\* an unsigned long long as four limbs, least significant first; sat marks
\* a value that left the range (strtoull then yields ULLONG_MAX)
ULLZero == [limbs |-> <<0, 0, 0, 0>>, sat |-> FALSE]
ULLMax == [limbs |-> <<Limb - 1, Limb - 1, Limb - 1, Limb - 1>>, sat |-> TRUE]

\* v * 10 + digit
ULLMulAdd(v, digit) ==
  LET t1 == v.limbs[1] * 10 + digit
      t2 == v.limbs[2] * 10 + (t1 \div Limb)
      t3 == v.limbs[3] * 10 + (t2 \div Limb)
      t4 == v.limbs[4] * 10 + (t3 \div Limb)
  IN IF v.sat \/ t4 \div Limb > 0 THEN ULLMax
     ELSE [limbs |-> <<t1 % Limb, t2 % Limb, t3 % Limb, t4 % Limb>>, sat |-> FALSE]

\* the negation of v as an unsigned long long (2^64 - v, and 0 for 0)
ULLNegate(v) ==
  LET c1 == (Limb - 1 - v.limbs[1]) + 1
      c2 == (Limb - 1 - v.limbs[2]) + (c1 \div Limb)
      c3 == (Limb - 1 - v.limbs[3]) + (c2 \div Limb)
      c4 == (Limb - 1 - v.limbs[4]) + (c3 \div Limb)
  IN IF v.sat THEN ULLMax
     ELSE [limbs |-> <<c1 % Limb, c2 % Limb, c3 % Limb, c4 % Limb>>, sat |-> FALSE]

\* the digits of s from i on: the value accumulated and the index after the
\* last digit
RECURSIVE strtoullDigits(_, _, _)
strtoullDigits(s, i, acc) ==
  IF i > Len(s) \/ s[i] \notin DecDigitChars THEN [value |-> acc, end |-> i]
  ELSE strtoullDigits(s, i + 1, ULLMulAdd(acc, DigitValue(s[i])))

\* std::strtoull(s, &end, 10): value is the result, end the index of the
\* character end points to (Len(s) + 1 is the terminating NUL)
strtoull(s) ==
  LET i0 == skipSpace(s, 1)
      negative == i0 <= Len(s) /\ s[i0] = "-"
      i1 == IF i0 <= Len(s) /\ s[i0] \in {"-", "+"} THEN i0 + 1 ELSE i0
      digits == strtoullDigits(s, i1, ULLZero)
  IN IF digits.end = i1
     THEN [value |-> ULLZero, end |-> 1]
     ELSE [value |-> IF negative THEN ULLNegate(digits.value) ELSE digits.value,
           end |-> digits.end]

\* static_cast<RowID>(temp) followed by rowid_to_pkey.find: the key of the
\* map equal to the low 32 bits of temp, or the end
findRowID(rtp, temp) ==
  LET hits == {r \in DOMAIN rtp : RowIDLimbs(r) = <<temp.limbs[1], temp.limbs[2]>>}
  IN IF hits = {} THEN EndIterator ELSE EntryAt(CHOOSE r \in hits : TRUE)

\* the santactl arguments of a removal that names the identifier alone,
\* whatever the type of the rule
deleteArgs_typeFlagDropped(rule) ==
  IF rule.type \in {"Binary", "Certificate", "TeamID", "SigningID", "CDHash"}
  THEN <<S_rule, S_optRemove, S_optIdentifier, rule.identifier>>
  ELSE <<>>

\* the santactl arguments of a removal, or <<>> for a type the switch
\* does not know
deleteArgs(rule) ==
  IF rule.type = "Binary" THEN <<S_rule, S_optRemove, S_optIdentifier, rule.identifier>>
  ELSE IF rule.type = "Certificate"
  THEN <<S_rule, S_optRemove, S_optIdentifier, rule.identifier, S_dashes \o S_certificate>>
  ELSE IF rule.type = "TeamID"
  THEN <<S_rule, S_optRemove, S_optIdentifier, rule.identifier, S_dashes \o S_teamid>>
  ELSE IF rule.type = "SigningID"
  THEN <<S_rule, S_optRemove, S_optIdentifier, rule.identifier, S_dashes \o S_signingid>>
  ELSE IF rule.type = "CDHash"
  THEN <<S_rule, S_optRemove, S_optIdentifier, rule.identifier, S_dashes \o S_cdhash>>
  ELSE <<>>

\* delete_ that takes a rowID it does not find in the mapping for a rule
\* already gone and reports success
delete_missingRowIDSucceeds(m, gen, store_rows, id, env) ==
  LET parsed == strtoull(id)
      rowid_it == findRowID(m.rowid_to_pkey, parsed.value)
      rowid == rowid_it.rowid
      Fail == Outcome("failure", NoId, NoMessage, {}, m, gen, <<>>, "none", {})
      rule == m.rule_list[m.rowid_to_pkey[rowid]]
      args == deleteArgs(rule)
      u == updateRules(m, gen, collectSantaRules(store_rows, env.fault), env.order)
  IN IF parsed.end <= Len(id) THEN Fail
     ELSE IF ~rowid_it.found
     THEN Outcome("success", NoId, NoMessage, {}, m, gen, <<>>, "none", {})
     ELSE IF m.rowid_to_pkey[rowid] \notin DOMAIN m.rule_list THEN Fail
     ELSE IF args = <<>> THEN Fail
     ELSE IF ~env.proc.started \/ env.proc.exit_code # 0
     THEN Outcome("failure", NoId, NoMessage, {}, m, gen, <<args>>, "none", {})
     ELSE IF ~u.ok
     THEN Outcome("failure", NoId, NoMessage, {}, u, u.generator, <<args>>, "failed", {})
     ELSE Outcome("success", NoId, NoMessage, {}, u, u.generator, <<args>>, "ok", {})

\* delete_: one delete of the given id text in the environment env
delete_(m, gen, store_rows, id, env) ==
  LET parsed == strtoull(id)
      rowid_it == findRowID(m.rowid_to_pkey, parsed.value)
      rowid == rowid_it.rowid
      Fail == Outcome("failure", NoId, NoMessage, {}, m, gen, <<>>, "none", {})
      rule == m.rule_list[m.rowid_to_pkey[rowid]]
      args == deleteArgs(rule)
      u == updateRules(m, gen, collectSantaRules(store_rows, env.fault), env.order)
  IN IF parsed.end <= Len(id) THEN Fail
     ELSE IF ~rowid_it.found THEN Fail
     ELSE IF m.rowid_to_pkey[rowid] \notin DOMAIN m.rule_list THEN Fail
     ELSE IF args = <<>> THEN Fail
     ELSE IF ~env.proc.started \/ env.proc.exit_code # 0
     THEN Outcome("failure", NoId, NoMessage, {}, m, gen, <<args>>, "none", {})
     ELSE IF ~u.ok
     THEN Outcome("failure", NoId, NoMessage, {}, u, u.generator, <<args>>, "failed", {})
     ELSE Outcome("success", NoId, NoMessage, {}, u, u.generator, <<args>>, "ok", {})

\* the environments of a delete, each as far as a delete can consult it,
\* its collection meeting one of the given faults
DeleteEnvs(faults, m) ==
  LET orders == IterationOrders(m.rowid_to_pkey)
  IN {Env(TRUE, proc, NoFault, <<>>, <<>>) :
        proc \in {p \in ProcessOutcomes : ~ProcessSucceeded(p)}}
     \cup {Env(TRUE, proc, fault, order, <<>>) :
             proc \in {p \in ProcessOutcomes : ProcessSucceeded(p)},
             fault \in faults,
             order \in orders}

(***************************************************************************)
(* santarulestable.cpp: update.                                            *)
(***************************************************************************)
\* update accepting the statement without doing anything
update_reportsSuccess(m, gen) ==
  Outcome("success", NoId, NoMessage, {}, m, gen, <<>>, "none", {})

\* update: the context and the request are not read
update(m, gen) ==
  Outcome("failure", NoId, NoMessage, {}, m, gen, <<>>, "none", {})

(***************************************************************************)
(* santa.cpp: the decision log.  A file is the sequence of its lines, a    *)
(* position in a line counts from 0 as in the source, and NPos stands for  *)
(* std::string::npos.                                                      *)
(***************************************************************************)
kLogEntryPreface == <<"s", "a", "n", "t", "a", "d", ":", " ">>
S_decisionALLOW == <<"d", "e", "c", "i", "s", "i", "o", "n", "=", "A", "L", "L", "O", "W">>
S_decisionDENY == <<"d", "e", "c", "i", "s", "i", "o", "n", "=", "D", "E", "N", "Y">>
S_timestamp == <<"t", "i", "m", "e", "s", "t", "a", "m", "p">>
S_path == <<"p", "a", "t", "h">>
S_reason == <<"r", "e", "a", "s", "o", "n">>
S_sha256 == <<"s", "h", "a", "2", "5", "6">>

NPos == 0 - 1

\* std::string::find(needle, pos)
Find(s, needle, pos) ==
  IF pos = NPos THEN NPos
  ELSE LET hits == {p \in pos..(Len(s) - Len(needle)) :
                      /\ s[p + 1] = needle[1]
                      /\ SubSeq(s, p + 1, p + Len(needle)) = needle}
       IN IF hits = {} THEN NPos ELSE CHOOSE p \in hits : \A q \in hits : p <= q

\* std::string::find_first_not_of(chars, pos)
FindFirstNotOf(s, chars, pos) ==
  IF pos = NPos THEN NPos
  ELSE LET hits == {p \in pos..(Len(s) - 1) : s[p + 1] \notin chars}
       IN IF hits = {} THEN NPos ELSE CHOOSE p \in hits : \A q \in hits : p <= q

\* std::string::substr(pos, n) for pos <= size.  n is a size_t: a count
\* below zero here is one that wrapped to a value near 2^64, and a count
\* past the end of the string is cut at the end
Substr(s, pos, n) ==
  IF n < 0 \/ pos + n > Len(s) THEN SubSeq(s, pos + 1, Len(s))
  ELSE SubSeq(s, pos + 1, pos + n)

\* std::map::operator[] used as an assignment
MapAssign(m, k, v) == [x \in DOMAIN m \cup {k} |-> IF x = k THEN v ELSE m[x]]

\* std::map::operator[] used as a read: a missing key reads as ""
MapRead(m, k) == IF k \in DOMAIN m THEN m[k] ELSE <<>>

\* the while loop of extractValues from key_pos on
RECURSIVE extractPairs(_, _, _)
extractPairs(line, key_pos, values) ==
  LET key_end == Find(line, <<"=">>, key_pos)
      val_pos == FindFirstNotOf(line, {"="}, key_end)
      val_end == Find(line, <<"|">>, val_pos)
  IN IF key_end = NPos \/ val_pos = NPos THEN values
     ELSE extractPairs(line,
                       IF val_end = NPos THEN NPos ELSE val_end + 1,
                       MapInsert(values,
                                 Substr(line, key_pos, key_end - key_pos),
                                 Substr(line, val_pos, val_end - val_pos)))

\* extractValues from the map it is handed, without values.clear()
extractValues_notCleared(line, values) ==
  LET timestamp_start == Find(line, <<"[">>, 0)
      timestamp_end == Find(line, <<"]">>, 0)
      stamped == IF /\ timestamp_start # NPos
                    /\ timestamp_end # NPos
                    /\ timestamp_start # timestamp_end
                 THEN MapAssign(values, S_timestamp,
                                Substr(line, timestamp_start + 1,
                                       timestamp_end - timestamp_start - 1))
                 ELSE values
      key_pos == Find(line, kLogEntryPreface, 0)
  IN IF key_pos = NPos THEN stamped
     ELSE extractPairs(line, key_pos + Len(kLogEntryPreface), stamped)

\* extractValues: the map values after the call; what it held before is
\* cleared
extractValues(line, values) ==
  LET timestamp_start == Find(line, <<"[">>, 0)
      timestamp_end == Find(line, <<"]">>, 0)
      stamped == IF /\ timestamp_start # NPos
                    /\ timestamp_end # NPos
                    /\ timestamp_start # timestamp_end
                 THEN MapAssign(EmptyMap, S_timestamp,
                                Substr(line, timestamp_start + 1,
                                       timestamp_end - timestamp_start - 1))
                 ELSE EmptyMap
      key_pos == Find(line, kLogEntryPreface, 0)
  IN IF key_pos = NPos THEN stamped
     ELSE extractPairs(line, key_pos + Len(kLogEntryPreface), stamped)

\* the LogEntry pushed for a line
LogEntryOf(line) ==
  LET values == extractValues(line, EmptyMap)
  IN [timestamp |-> MapRead(values, S_timestamp),
      application |-> MapRead(values, S_path),
      reason |-> MapRead(values, S_reason),
      sha256 |-> MapRead(values, S_sha256)]

\* SantaDecisionType
DecisionTypes == {"kAllowed", "kDenied"}

\* the literal a line has to contain for a scan of the class
MarkerOf(decision) ==
  IF decision = "kAllowed" THEN S_decisionALLOW ELSE S_decisionDENY

\* the filter of scrapeStream: the line is not skipped
PassesFilter(line, decision) == Find(line, MarkerOf(decision), 0) # NPos

\* scrapeStream keeping every line, whatever its decision
scrapeStream_filterDropped(incoming, save_to_archive, decision) ==
  [response |-> [i \in DOMAIN incoming |-> LogEntryOf(incoming[i])],
   archived |-> IF save_to_archive THEN incoming ELSE <<>>]

\* scrapeStream over the lines of incoming: the entries pushed to response
\* and the lines pushed to archived_lines
scrapeStream(incoming, save_to_archive, decision) ==
  LET Kept(line) == PassesFilter(line, decision)
      kept == SelectSeq(incoming, Kept)
  IN [response |-> [i \in DOMAIN kept |-> LogEntryOf(kept[i])],
      archived |-> IF save_to_archive THEN kept ELSE <<>>]

\* a file of the log directory: whether it can be opened (is_open, gzopen),
\* whether it decodes (gzerror) and the lines it holds
LogFile(opens, decodes, lines) == [opens |-> opens, decodes |-> decodes, lines |-> lines]

\* scrapeCurrentLog: the entries of the live log, none if it does not open
scrapeCurrentLog(live, decision) ==
  IF ~live.opens THEN <<>>
  ELSE scrapeStream(live.lines, FALSE, decision).response

\* newArchiveFileExists: archives[i + 1] is the file <log>.<i>.gz
newArchiveFileExists(archives, next) ==
  next < Len(archives) /\ archives[next + 1].opens

\* processArchivedLines: one entry for every cached line
processArchivedLines(cache) ==
  [i \in DOMAIN cache |-> LogEntryOf(cache[i])]

\* scrapeCompressedSantaLog on <log>.<i>.gz going on after a decoding error
scrapeCompressedSantaLog_errorIgnored(archives, i, decision) ==
  IF i >= Len(archives) \/ ~archives[i + 1].opens
  THEN [ok |-> FALSE, response |-> <<>>, archived |-> <<>>]
  ELSE LET scraped == scrapeStream(archives[i + 1].lines, TRUE, decision)
       IN [ok |-> TRUE, response |-> scraped.response, archived |-> scraped.archived]

\* scrapeCompressedSantaLog on <log>.<i>.gz: the return value, the entries
\* pushed to response and the lines pushed to archived_lines
scrapeCompressedSantaLog(archives, i, decision) ==
  IF i >= Len(archives) \/ ~archives[i + 1].opens \/ ~archives[i + 1].decodes
  THEN [ok |-> FALSE, response |-> <<>>, archived |-> <<>>]
  ELSE LET scraped == scrapeStream(archives[i + 1].lines, TRUE, decision)
       IN [ok |-> TRUE, response |-> scraped.response, archived |-> scraped.archived]

\* the loop of scrapeSantaLog from index i on
RECURSIVE rescan(_, _, _, _, _)
rescan(archives, i, response, cache, decision) ==
  LET scraped == scrapeCompressedSantaLog(archives, i, decision)
  IN IF ~scraped.ok
     THEN [ok |-> TRUE, response |-> response, archived_lines |-> cache,
           next_oldest_archive |-> i]
     ELSE rescan(archives, i + 1, response \o scraped.response,
                 cache \o scraped.archived, decision)

\* where a std::exception (a std::bad_alloc, say) can leave scrapeSantaLog:
\* nowhere, in the stage of the live log before an entry is pushed, or
\* while the cache is replayed, the entries of the live log being pushed
LogFaults == {"none", "live", "replay"}

\* scrapeSantaLog rescanning on top of the lines the cache holds, without
\* archived_lines.clear()
scrapeSantaLog_cacheNotCleared(files, cache, next, decision, fault) ==
  LET live == scrapeCurrentLog(files.live, decision)
      thrown == [ok |-> FALSE, response |-> <<>>, archived_lines |-> cache,
                 next_oldest_archive |-> next]
  IN IF fault = "live" THEN thrown
     ELSE IF ~newArchiveFileExists(files.archives, next)
     THEN IF fault = "replay" THEN [thrown EXCEPT !.response = live]
          ELSE [ok |-> TRUE,
                response |-> live \o processArchivedLines(cache),
                archived_lines |-> cache, next_oldest_archive |-> next]
     ELSE rescan(files.archives, 0, live, cache, decision)

\* scrapeSantaLog with the live log scraped like an archive, its lines
\* saved to archived_lines
scrapeSantaLog_liveCached(files, cache, next, decision, fault) ==
  LET live == scrapeCurrentLog(files.live, decision)
      kept == IF files.live.opens
              THEN scrapeStream(files.live.lines, TRUE, decision).archived
              ELSE <<>>
      thrown == [ok |-> FALSE, response |-> <<>>, archived_lines |-> cache,
                 next_oldest_archive |-> next]
  IN IF fault = "live" THEN thrown
     ELSE IF ~newArchiveFileExists(files.archives, next)
     THEN IF fault = "replay" THEN [thrown EXCEPT !.response = live]
          ELSE [ok |-> TRUE,
                response |-> live \o processArchivedLines(cache),
                archived_lines |-> cache \o kept, next_oldest_archive |-> next]
     ELSE rescan(files.archives, 0, live, kept, decision)

\* scrapeSantaLog rescanning without next_oldest_archive = i
scrapeSantaLog_indexNotWritten(files, cache, next, decision, fault) ==
  LET live == scrapeCurrentLog(files.live, decision)
      thrown == [ok |-> FALSE, response |-> <<>>, archived_lines |-> cache,
                 next_oldest_archive |-> next]
  IN IF fault = "live" THEN thrown
     ELSE IF ~newArchiveFileExists(files.archives, next)
     THEN IF fault = "replay" THEN [thrown EXCEPT !.response = live]
          ELSE [ok |-> TRUE,
                response |-> live \o processArchivedLines(cache),
                archived_lines |-> cache, next_oldest_archive |-> next]
     ELSE [rescan(files.archives, 0, live, <<>>, decision)
             EXCEPT !.next_oldest_archive = next]

\* scrapeSantaLog giving up when the live log does not open
scrapeSantaLog_liveRequired(files, cache, next, decision, fault) ==
  LET live == scrapeCurrentLog(files.live, decision)
      thrown == [ok |-> FALSE, response |-> <<>>, archived_lines |-> cache,
                 next_oldest_archive |-> next]
  IN IF fault = "live" \/ ~files.live.opens THEN thrown
     ELSE IF ~newArchiveFileExists(files.archives, next)
     THEN IF fault = "replay" THEN [thrown EXCEPT !.response = live]
          ELSE [ok |-> TRUE,
                response |-> live \o processArchivedLines(cache),
                archived_lines |-> cache, next_oldest_archive |-> next]
     ELSE rescan(files.archives, 0, live, <<>>, decision)

\* scrapeSantaLog: ok is the return value, response the entries handed
\* back, archived_lines and next_oldest_archive the globals it leaves
scrapeSantaLog(files, cache, next, decision, fault) ==
  LET live == scrapeCurrentLog(files.live, decision)
      thrown == [ok |-> FALSE, response |-> <<>>, archived_lines |-> cache,
                 next_oldest_archive |-> next]
  IN IF fault = "live" THEN thrown
     ELSE IF ~newArchiveFileExists(files.archives, next)
     THEN IF fault = "replay" THEN [thrown EXCEPT !.response = live]
          ELSE [ok |-> TRUE,
                response |-> live \o processArchivedLines(cache),
                archived_lines |-> cache, next_oldest_archive |-> next]
     ELSE rescan(files.archives, 0, live, <<>>, decision)

\* the row decisionTablesGenerate builds of a LogEntry
DecisionRow(entry) ==
  [timestamp |-> entry.timestamp, path |-> entry.application,
   shasum |-> entry.sha256, reason |-> entry.reason]

\* decisionTablesGenerate building rows of whatever scrapeSantaLog left in
\* log_entries
decisionTablesGenerate_failureIgnored(scraped) ==
  [i \in DOMAIN scraped.response |-> DecisionRow(scraped.response[i])]

\* decisionTablesGenerate: the rows of a decisions read
decisionTablesGenerate(scraped) ==
  IF ~scraped.ok THEN <<>>
  ELSE [i \in DOMAIN scraped.response |-> DecisionRow(scraped.response[i])]

(***************************************************************************)
(* Inputs explored.                                                        *)
(***************************************************************************)
\* identifiers: a SHA-256 digest, a short hex string, an upper-case string,
\* a TeamID:BundleID pair, a team id
Sha256Id == Rep("a", Sha256HexLength)
ShortHexId == <<"a", "b">>
UpperId == <<"Z", "Z", "Z", "Z">>
SigningId == <<"T", ":", "b">>
TeamId == <<"T">>
S_msg == <<"m">>
S_storeMsg == <<"s">>


\* rows the rules table of the external store may hold, as sqlite hands
\* them to the callback (<<identifier, state, type, custommsg>>): a binary
\* allow rule, and two rows of one identifier whose type codes are both
\* unrecognized
StoreRows ==
  {<<Str(Sha256Id), Str(<<"1">>), Str(<<"1", "0", "0", "0">>), Null>>,
   <<Str(Sha256Id), Str(<<"1">>), Str(<<"7">>), Null>>,
   <<Str(Sha256Id), Str(<<"2">>), Null, Str(S_storeMsg)>>}

Payload(identifier, state, type, message) ==
  [parse_error |-> FALSE, is_array |-> TRUE,
   elems |-> <<identifier, state, type, message>>]

\* payloads that are no array of four non-null leading fields
StructurallyBadRequests ==
  {[parse_error |-> TRUE, is_array |-> FALSE, elems |-> <<>>],
   [parse_error |-> FALSE, is_array |-> FALSE, elems |-> <<>>],
   [parse_error |-> FALSE, is_array |-> TRUE,
    elems |-> <<Str(Sha256Id), Str(S_allow), Str(S_binary)>>],
   Payload(Null, Str(S_allow), Str(S_binary), Null),
   Payload(Str(Sha256Id), Null, Str(S_binary), Null),
   Payload(Str(Sha256Id), Str(S_allow), Null, Null)}

\* payloads whose type or state is outside the recognized sets
BadEnumRequests ==
  {Payload(Str(Sha256Id), Str(S_allow), Str(S_unknown), Null),
   Payload(Str(Sha256Id), Str(S_unknown), Str(S_binary), Null)}

\* payloads that exercise the identifier formats of each type
IdentifierRequests ==
  {Payload(Str(ShortHexId), Str(S_allow), Str(S_binary), Null),
   Payload(Str(UpperId), Str(S_allow), Str(S_binary), Null),
   Payload(Str(ShortHexId), Str(S_allow), Str(S_certificate), Null),
   Payload(Str(UpperId), Str(S_allow), Str(S_certificate), Null),
   Payload(Str(TeamId), Str(S_block), Str(S_teamid), Str(S_msg)),
   Payload(Str(<<>>), Str(S_allow), Str(S_teamid), Null),
   Payload(Str(SigningId), Str(S_allow), Str(S_signingid), Null),
   Payload(Str(ShortHexId), Str(S_allow), Str(S_signingid), Null),
   Payload(Str(ShortHexId), Str(S_block), Str(S_cdhash), Null),
   Payload(Str(UpperId), Str(S_allow), Str(S_cdhash), Null)}

\* binary rules in each spelling of the state, with and without a message
StateRequests ==
  {Payload(Str(Sha256Id), Str(s), Str(S_binary), m) :
     s \in {S_allow, S_whitelist, S_block, S_blacklist}, m \in {Null, Str(S_msg)}}

InsertRequests ==
  StructurallyBadRequests \cup BadEnumRequests \cup IdentifierRequests \cup StateRequests

\* the payloads inserted while the table is explored: a binary rule in both
\* states and a payload that fails validation
TableRequests ==
  {Payload(Str(Sha256Id), Str(S_allow), Str(S_binary), Null),
   Payload(Str(Sha256Id), Str(S_block), Str(S_binary), Str(S_msg)),
   Payload(Str(ShortHexId), Str(S_allow), Str(S_binary), Null)}

\* id texts handed to delete_ in a state: the rowID of every row a read could
\* have returned, the rowID the generator would hand out next (no row has
\* it), and a text that is no number
DeleteRequests(rtp, gen) ==
  {to_string(r) : r \in DOMAIN rtp \cup {gen}} \cup {<<"1", "x">>}

\* lines santad writes to the log: an allowed and a denied execution, and a
\* line that records no decision
L_allow == <<"[", "1", "]", " ", "s", "a", "n", "t", "a", "d", ":", " ", "d", "e", "c", "i", "s", "i", "o", "n", "=", "A", "L", "L", "O", "W", "|", "p", "a", "t", "h", "=", "/", "a", "|", "s", "h", "a", "2", "5", "6", "=", "a", "a">>
L_deny == <<"[", "2", "]", " ", "s", "a", "n", "t", "a", "d", ":", " ", "d", "e", "c", "i", "s", "i", "o", "n", "=", "D", "E", "N", "Y", "|", "r", "e", "a", "s", "o", "n", "=", "C", "|", "p", "a", "t", "h", "=", "/", "d">>
L_other == <<"[", "3", "]", " ", "s", "a", "n", "t", "a", "d", ":", " ", "a", "c", "t", "i", "o", "n", "=", "X">>
L_allow_later == <<"[", "4", "]", " ", "s", "a", "n", "t", "a", "d", ":", " ", "d", "e", "c", "i", "s", "i", "o", "n", "=", "A", "L", "L", "O", "W", "|", "p", "a", "t", "h", "=", "/", "b">>
LogLines == {L_allow, L_allow_later, L_deny, L_other}

(***************************************************************************)
(* State.                                                                  *)
(***************************************************************************)
VARIABLES
  store,          \* the rows of the rules table at kSantaDatabasePath
  rowid_to_pkey,  \* PrivateData::rowid_to_pkey
  rule_list,      \* PrivateData::rule_list
  generator,      \* the static counter of generateRowID
  synthetic,      \* rowIDs synthesized by insert since the last refresh
  wrapped,        \* whether generator++ has passed 2^32 - 1 in this process
  mutex,          \* PrivateData::mutex: the caller that holds it, or NoCaller
  pc,             \* where each caller stands in the handler it runs
  frame,          \* the arguments and locals of the handler each caller runs
  log_file,       \* the live log at kSantaLogPath
  archives,       \* the files <log>.0.gz, <log>.1.gz, ...
  archived_lines, \* the global archived_lines
  next_oldest_archive  \* the global next_oldest_archive

vars == <<store, rowid_to_pkey, rule_list, generator, synthetic, wrapped,
          mutex, pc, frame,
          log_file, archives, archived_lines, next_oldest_archive>>

\* the variables of the rules table and its store
table == <<store, rowid_to_pkey, rule_list, generator, synthetic, wrapped>>

\* the variables of the decision log and its cache
logs == <<log_file, archives, archived_lines, next_oldest_archive>>

\* the variables of the callers that run a handler step by step
threads == <<mutex, pc, frame>>

d == [rowid_to_pkey |-> rowid_to_pkey, rule_list |-> rule_list]

\* the callers of the one table instance
Callers == 1..NumCallers
NoCaller == 0

\* what a handler returns to its caller
Result(o) == [status |-> o.status, id |-> o.id, message |-> o.message, rows |-> o.rows]

\* the frame of a handler that has just been entered: its request, its
\* locals, and for the comparison with the handler run as a whole the table
\* and the counter it found when it began (start), what it has met of its
\* environment (env) and the rows its collection read (seen)
NoEnv == Env(TRUE, NoProcess, NoFault, <<>>, <<>>)
NewFrame ==
  [op |-> "none",
   json |-> Payload(Null, Null, Null, Null),
   id |-> <<>>,
   start |-> [rowid_to_pkey |-> EmptyMap, rule_list |-> EmptyMap, generator |-> 0],
   env |-> NoEnv,
   seen |-> <<>>,
   args |-> <<>>,
   copies |-> [rowid_to_pkey |-> EmptyMap, rule_list |-> EmptyMap],
   result |-> [status |-> "", id |-> NoId, message |-> NoMessage, rows |-> {}]]

\* a caller that runs no handler has no frame
NoFrame == [op |-> "none"]

\* the process has read no log yet; the log directory holds an empty live
\* log and no archive
LogsAtStart ==
  /\ log_file = LogFile(TRUE, TRUE, <<>>)
  /\ archives = <<>>
  /\ archived_lines = <<>>
  /\ next_oldest_archive = 0

\* no caller is in a handler and the mutex is free
ThreadsIdle ==
  /\ mutex = NoCaller
  /\ pc = [c \in Callers |-> "idle"]
  /\ frame = [c \in Callers |-> NoFrame]

\* A run starts with the table just constructed, or is taken up in an old
\* process whose counter is NearWrap short of 2^32 at a moment when the
\* store and the table are empty.
Init ==
  /\ store = <<>>
  /\ rowid_to_pkey = EmptyMap
  /\ rule_list = EmptyMap
  /\ \/ generator = 0
     \/ generator = 0 - NearWrap
  /\ synthetic = {}
  /\ wrapped = FALSE
  /\ ThreadsIdle
  /\ LogsAtStart

\* what a handler that refreshed leaves of the synthesized rowIDs
synthesizedAfter(o) ==
  IF o.refresh = "ok" THEN o.synth ELSE synthetic

\* a handler mints few rowIDs: the counter it leaves is below the one it
\* found exactly when generator++ passed 2^32 - 1
wrappedAfter(o) == wrapped \/ RowIDLess(o.generator, generator)

\* rowIDs minted in the explored run when the counter stands at gen
Minted(gen, w) == IF gen < 0 \/ w THEN gen + NearWrap ELSE gen

\* a handler ends with outcome o
Apply(o) ==
  /\ Minted(o.generator, wrappedAfter(o)) <= MaxRowID
  /\ rowid_to_pkey' = o.rowid_to_pkey
  /\ rule_list' = o.rule_list
  /\ generator' = o.generator
  /\ synthetic' = synthesizedAfter(o)
  /\ wrapped' = wrappedAfter(o)
  /\ UNCHANGED store
  /\ UNCHANGED threads
  /\ UNCHANGED logs

(***************************************************************************)
(* Actions: the handlers of the table, each run under the mutex from its   *)
(* first step to its last, and the writers of the external store.          *)
(***************************************************************************)
Generate ==
  \E env \in RefreshEnvs(FaultsInEffect(store), d) :
    Apply(generate(d, generator, store, env))

Insert ==
  \E env \in InsertEnvs(FaultsInEffect(store), d, generator, store) :
    \E json \in TableRequests :
      Apply(insert(d, generator, store, json, env))

Delete ==
  \E env \in DeleteEnvs(FaultsInEffect(store), d) :
    \E id \in DeleteRequests(rowid_to_pkey, generator) :
      Apply(delete_(d, generator, store, id, env))

Update ==
  \E o \in {update(d, generator)} : Apply(o)

\* santad or santactl adds a row to the rules table
StoreAddRow ==
  /\ Len(store) < MaxStore
  /\ \E row \in StoreRows \ Range(store) : store' = Append(store, row)
  /\ UNCHANGED <<rowid_to_pkey, rule_list, generator, synthetic, wrapped>>
  /\ UNCHANGED threads
  /\ UNCHANGED logs

\* santad or santactl removes a row from the rules table
StoreRemoveRow ==
  /\ \E i \in DOMAIN store :
       store' = SubSeq(store, 1, i - 1) \o SubSeq(store, i + 1, Len(store))
  /\ UNCHANGED <<rowid_to_pkey, rule_list, generator, synthetic, wrapped>>
  /\ UNCHANGED threads
  /\ UNCHANGED logs

Next ==
  \/ Generate
  \/ Insert
  \/ Delete
  \/ Update
  \/ StoreAddRow
  \/ StoreRemoveRow

Spec == Init /\ [][Next]_vars

(***************************************************************************)
(* The handlers run step by step by concurrent callers.  generate takes    *)
(* the mutex for updateRules and the copy of the two maps and formats the  *)
(* rows after releasing it; insert and delete_ take it in their first      *)
(* statement and release it when they return; update takes no lock.  A     *)
(* caller at "ret" has built the value it returns and, if it holds the     *)
(* mutex, has not yet released it.                                         *)
(***************************************************************************)
\* the statements a caller executes while it holds the mutex
BodyLabels ==
  {"generate_refresh", "generate_copy",
   "insert_validate", "insert_check", "insert_exec", "insert_refresh",
   "insert_reconcile",
   "delete_lookup", "delete_exec", "delete_refresh"}

\* the requests concurrent callers make: a valid and an invalid insert, a
\* delete of a rowID in the mapping or of a text that is no number
ThreadInsertRequests ==
  {Payload(Str(Sha256Id), Str(S_allow), Str(S_binary), Null),
   Payload(Str(ShortHexId), Str(S_allow), Str(S_binary), Null)}

ThreadDeleteRequests(rtp) ==
  {to_string(r) : r \in DOMAIN rtp} \cup {<<"1", "x">>}

\* what concurrent callers meet: santactl succeeding or failing, a
\* collection that meets no fault or cannot open the database
ThreadProcesses ==
  {[started |-> TRUE, exit_code |-> 0, std_output |-> <<>>],
   [started |-> TRUE, exit_code |-> 1, std_output |-> S_someError]}

ThreadFaults(rows_in_store) ==
  {[stage |-> "none", rows |-> rows_in_store, close_ok |-> TRUE],
   [stage |-> "src_open", rows |-> 0, close_ok |-> TRUE]}

\* caller c goes from label from to label to with the frame f
Goto(c, from, to, f) ==
  /\ pc[c] = from
  /\ pc' = [pc EXCEPT ![c] = to]
  /\ frame' = [frame EXCEPT ![c] = f]

\* the table as caller c finds it
Start == [rowid_to_pkey |-> rowid_to_pkey, rule_list |-> rule_list,
          generator |-> generator]

\* a step that leaves the table and the store alone
TableUnchanged ==
  /\ UNCHANGED <<store, rowid_to_pkey, rule_list, generator, synthetic, wrapped>>
  /\ UNCHANGED logs

\* a step of updateRules under the mutex: the maps and the counter it leaves
Refreshed(u) ==
  /\ u.generator <= MaxRowID
  /\ rowid_to_pkey' = u.rowid_to_pkey
  /\ rule_list' = u.rule_list
  /\ generator' = u.generator
  /\ UNCHANGED <<store, synthetic, wrapped>>
  /\ UNCHANGED logs

\* a caller enters a handler with its request; update runs without a lock
Call(c) ==
  /\ pc[c] = "idle"
  /\ \/ Goto(c, "idle", "lock", [NewFrame EXCEPT !.op = "generate"])
     \/ \E json \in ThreadInsertRequests :
          Goto(c, "idle", "lock", [NewFrame EXCEPT !.op = "insert", !.json = json])
     \/ \E id \in ThreadDeleteRequests(rowid_to_pkey) :
          Goto(c, "idle", "lock", [NewFrame EXCEPT !.op = "delete", !.id = id])
     \/ Goto(c, "idle", "update_body", [NewFrame EXCEPT !.op = "update"])
  /\ UNCHANGED mutex
  /\ TableUnchanged

\* std::lock_guard constructed without waiting for the holder to release
\* the mutex
Lock_notExclusive(c) ==
  /\ pc[c] = "lock"
  /\ mutex' = c
  /\ Goto(c, "lock",
          CASE frame[c].op = "generate" -> "generate_refresh"
            [] frame[c].op = "insert" -> "insert_validate"
            [] OTHER -> "delete_lookup",
          [frame[c] EXCEPT !.start = Start])
  /\ TableUnchanged

\* std::lock_guard<std::mutex> lock(d->mutex)
Lock(c) ==
  /\ pc[c] = "lock"
  /\ mutex = NoCaller
  /\ mutex' = c
  /\ Goto(c, "lock",
          CASE frame[c].op = "generate" -> "generate_refresh"
            [] frame[c].op = "insert" -> "insert_validate"
            [] OTHER -> "delete_lookup",
          [frame[c] EXCEPT !.start = Start])
  /\ TableUnchanged

\* generate: updateRules under the lock
generate_refresh(c) ==
  /\ pc[c] = "generate_refresh"
  /\ \E fault \in ThreadFaults(Len(store)), order \in IterationOrders(rowid_to_pkey) :
       LET u == updateRules(d, generator, collectSantaRules(store, fault), order)
           f == [frame[c] EXCEPT !.env = Env(TRUE, NoProcess, fault, order, <<>>),
                                 !.seen = store]
       IN /\ Refreshed(u)
          /\ UNCHANGED mutex
          /\ IF u.ok
             THEN Goto(c, "generate_refresh", "generate_copy", f)
             ELSE Goto(c, "generate_refresh", "ret",
                       [f EXCEPT !.result = [status |-> "failure", id |-> NoId,
                                             message |-> NoMessage, rows |-> FailureRows]])

\* generate: the copies of the two maps, and the end of the locked scope
generate_copy(c) ==
  /\ pc[c] = "generate_copy"
  /\ Goto(c, "generate_copy", "generate_format",
          [NewFrame EXCEPT !.op = "generate", !.copies = d])
  /\ mutex' = NoCaller
  /\ TableUnchanged

\* generate: the rows formatted from the maps of the table
generate_format_sharedMaps(c) ==
  /\ pc[c] = "generate_format"
  /\ Goto(c, "generate_format", "ret",
          [frame[c] EXCEPT !.result =
             [status |-> "success", id |-> NoId, message |-> NoMessage,
              rows |-> generateRows(rowid_to_pkey, rule_list)]])
  /\ UNCHANGED mutex
  /\ TableUnchanged

\* generate: the rows formatted from the copies
generate_format(c) ==
  /\ pc[c] = "generate_format"
  /\ Goto(c, "generate_format", "ret",
          [frame[c] EXCEPT !.result =
             [status |-> "success", id |-> NoId, message |-> NoMessage,
              rows |-> generateRows(frame[c].copies.rowid_to_pkey,
                                    frame[c].copies.rule_list)]])
  /\ UNCHANGED mutex
  /\ TableUnchanged

\* insert: GetRowData
insert_validate(c) ==
  /\ pc[c] = "insert_validate"
  /\ IF GetRowData(frame[c].json).ok
     THEN Goto(c, "insert_validate", "insert_check", frame[c])
     ELSE Goto(c, "insert_validate", "ret",
               [frame[c] EXCEPT !.result = [status |-> "failure", id |-> NoId,
                                            message |-> NoMessage, rows |-> {}]])
  /\ UNCHANGED mutex
  /\ TableUnchanged

\* insert: the test that santactl exists, and the arguments
insert_check(c) ==
  /\ pc[c] = "insert_check"
  /\ \E present \in BOOLEAN :
       LET row == GetRowData(frame[c].json).row
           whitelist == row.state = S_whitelist \/ row.state = S_allow
           f == [frame[c] EXCEPT
                   !.env = [@ EXCEPT !.present = present],
                   !.args = insertArgs(IF whitelist THEN S_optAllow ELSE S_optBlock,
                                       row.type, row.identifier, row.custom_message)]
       IN IF present
          THEN Goto(c, "insert_check", "insert_exec", f)
          ELSE Goto(c, "insert_check", "ret",
                    [frame[c] EXCEPT
                       !.env = [@ EXCEPT !.present = FALSE],
                       !.result = [status |-> "failure", id |-> NoId,
                                   message |-> Message("santactl not found", <<>>),
                                   rows |-> {}]])
  /\ UNCHANGED mutex
  /\ TableUnchanged

\* insert: ExecuteProcess and the test of the exit code
insert_exec(c) ==
  /\ pc[c] = "insert_exec"
  /\ \E proc \in ThreadProcesses :
       LET f == [frame[c] EXCEPT !.env = [@ EXCEPT !.proc = proc]]
       IN IF ProcessSucceeded(proc)
          THEN Goto(c, "insert_exec", "insert_refresh", f)
          ELSE Goto(c, "insert_exec", "ret",
                    [f EXCEPT !.result =
                       [status |-> "failure", id |-> NoId,
                        message |-> IF proc.started
                                    THEN Message("santactl command failed: ", proc.std_output)
                                    ELSE Message("Failed to execute santactl process", <<>>),
                        rows |-> {}]])
  /\ UNCHANGED mutex
  /\ TableUnchanged

\* insert: updateRules
insert_refresh(c) ==
  /\ pc[c] = "insert_refresh"
  /\ \E fault \in ThreadFaults(Len(store)), order \in IterationOrders(rowid_to_pkey) :
       LET u == updateRules(d, generator, collectSantaRules(store, fault), order)
           f == [frame[c] EXCEPT !.env = [@ EXCEPT !.fault = fault, !.order = order],
                                 !.seen = store]
       IN /\ Refreshed(u)
          /\ UNCHANGED mutex
          /\ IF u.ok
             THEN Goto(c, "insert_refresh", "insert_reconcile", f)
             ELSE Goto(c, "insert_refresh", "ret",
                       [f EXCEPT !.result =
                          [status |-> "failure", id |-> NoId,
                           message |-> Message("Failed to update rules: Failed to enumerate the Santa rules", <<>>),
                           rows |-> {}]])

\* insert: the search loop and the synthetic entry
insert_reconcile(c) ==
  /\ pc[c] = "insert_reconcile"
  /\ \E order2 \in IterationOrders(rowid_to_pkey) :
       LET o == insertReconcile(Start, GetRowData(frame[c].json).row, order2,
                                frame[c].args)
       IN /\ Refreshed(o)
          /\ UNCHANGED mutex
          /\ Goto(c, "insert_reconcile", "ret",
                  [frame[c] EXCEPT !.env = [@ EXCEPT !.order2 = order2],
                                   !.result = Result(o)])

\* delete_: strtoull, the two lookups and the arguments
delete_lookup(c) ==
  /\ pc[c] = "delete_lookup"
  /\ LET parsed == strtoull(frame[c].id)
         rowid_it == findRowID(rowid_to_pkey, parsed.value)
         args == deleteArgs(rule_list[rowid_to_pkey[rowid_it.rowid]])
         failed == [frame[c] EXCEPT !.result = [status |-> "failure", id |-> NoId,
                                                message |-> NoMessage, rows |-> {}]]
     IN IF parsed.end <= Len(frame[c].id) THEN Goto(c, "delete_lookup", "ret", failed)
        ELSE IF ~rowid_it.found THEN Goto(c, "delete_lookup", "ret", failed)
        ELSE IF rowid_to_pkey[rowid_it.rowid] \notin DOMAIN rule_list
        THEN Goto(c, "delete_lookup", "ret", failed)
        ELSE IF args = <<>> THEN Goto(c, "delete_lookup", "ret", failed)
        ELSE Goto(c, "delete_lookup", "delete_exec", [frame[c] EXCEPT !.args = args])
  /\ UNCHANGED mutex
  /\ TableUnchanged

\* delete_: ExecuteProcess and the test of the exit code
delete_exec(c) ==
  /\ pc[c] = "delete_exec"
  /\ \E proc \in ThreadProcesses :
       LET f == [frame[c] EXCEPT !.env = [@ EXCEPT !.proc = proc]]
       IN IF ProcessSucceeded(proc)
          THEN Goto(c, "delete_exec", "delete_refresh", f)
          ELSE Goto(c, "delete_exec", "ret",
                    [f EXCEPT !.result = [status |-> "failure", id |-> NoId,
                                          message |-> NoMessage, rows |-> {}]])
  /\ UNCHANGED mutex
  /\ TableUnchanged

\* delete_: updateRules
delete_refresh(c) ==
  /\ pc[c] = "delete_refresh"
  /\ \E fault \in ThreadFaults(Len(store)), order \in IterationOrders(rowid_to_pkey) :
       LET u == updateRules(d, generator, collectSantaRules(store, fault), order)
           f == [frame[c] EXCEPT !.env = [@ EXCEPT !.fault = fault, !.order = order],
                                 !.seen = store]
       IN /\ Refreshed(u)
          /\ UNCHANGED mutex
          /\ Goto(c, "delete_refresh", "ret",
                  [f EXCEPT !.result = [status |-> IF u.ok THEN "success" ELSE "failure",
                                        id |-> NoId, message |-> NoMessage, rows |-> {}]])

\* update: the whole body
update_body(c) ==
  /\ pc[c] = "update_body"
  /\ Goto(c, "update_body", "ret",
          [frame[c] EXCEPT !.result = [status |-> "failure", id |-> NoId,
                                       message |-> NoMessage, rows |-> {}]])
  /\ UNCHANGED mutex
  /\ TableUnchanged

\* the handler returns and the lock_guard is not destroyed
Return_lockKept(c) ==
  /\ pc[c] = "ret"
  /\ Goto(c, "ret", "idle", NoFrame)
  /\ UNCHANGED mutex
  /\ TableUnchanged

\* the handler returns: the lock_guard, if the caller still holds one, is
\* destroyed
Return(c) ==
  /\ pc[c] = "ret"
  /\ Goto(c, "ret", "idle", NoFrame)
  /\ mutex' = IF mutex = c THEN NoCaller ELSE mutex
  /\ TableUnchanged

\* the rule santad or santactl writes while callers are at work
ThreadStoreRow == <<Str(Sha256Id), Str(<<"1">>), Str(<<"1", "0", "0", "0">>), Null>>

\* santad or santactl adds the rule to the rules table or removes it
StoreChanges ==
  /\ \/ store = <<>> /\ store' = <<ThreadStoreRow>>
     \/ store # <<>> /\ store' = <<>>
  /\ UNCHANGED <<rowid_to_pkey, rule_list, generator, synthetic, wrapped>>
  /\ UNCHANGED threads
  /\ UNCHANGED logs

NextThreads ==
  \/ \E c \in Callers :
       \/ Call(c)
       \/ Lock(c)
       \/ generate_refresh(c)
       \/ generate_copy(c)
       \/ generate_format(c)
       \/ insert_validate(c)
       \/ insert_check(c)
       \/ insert_exec(c)
       \/ insert_refresh(c)
       \/ insert_reconcile(c)
       \/ delete_lookup(c)
       \/ delete_exec(c)
       \/ delete_refresh(c)
       \/ update_body(c)
       \/ Return(c)
  \/ StoreChanges

InitThreads ==
  /\ store = <<>>
  /\ rowid_to_pkey = EmptyMap
  /\ rule_list = EmptyMap
  /\ generator = 0
  /\ synthetic = {}
  /\ wrapped = FALSE
  /\ ThreadsIdle
  /\ LogsAtStart

SpecThreads == InitThreads /\ [][NextThreads]_vars

\* the statements of a handler but the wait for the mutex: a thread that
\* is in a handler keeps running, and ExecuteProcess returns when the
\* command has exited
Proceed(c) ==
  \/ generate_refresh(c)
  \/ generate_copy(c)
  \/ generate_format(c)
  \/ insert_validate(c)
  \/ insert_check(c)
  \/ insert_exec(c)
  \/ insert_refresh(c)
  \/ insert_reconcile(c)
  \/ delete_lookup(c)
  \/ delete_exec(c)
  \/ delete_refresh(c)
  \/ update_body(c)
  \/ Return(c)

\* the callers at work on a rules database that holds one rule and does
\* not change meanwhile
InitCommands ==
  /\ store = <<ThreadStoreRow>>
  /\ rowid_to_pkey = EmptyMap
  /\ rule_list = EmptyMap
  /\ generator = 0
  /\ synthetic = {}
  /\ wrapped = FALSE
  /\ ThreadsIdle
  /\ LogsAtStart

NextCommands ==
  \E c \in Callers :
    \/ Call(c)
    \/ Lock(c)
    \/ Proceed(c)

\* every thread keeps running, every external command exits, and a thread
\* that waits for the mutex gets it once if it is released again and again
SpecCommands ==
  /\ InitCommands
  /\ [][NextCommands]_vars
  /\ \A c \in Callers : WF_vars(Proceed(c)) /\ SF_vars(Lock(c))

(***************************************************************************)
(* The decisions tables: reads of either class run one after the other,    *)
(* while santad writes the live log and the log directory is rotated.      *)
(***************************************************************************)
\* the log directory as a read finds it
Files == [live |-> log_file, archives |-> archives]

\* the lines the directory holds
RECURSIVE LinesIn(_)
LinesIn(fs) == IF fs = <<>> THEN 0 ELSE Len(Head(fs).lines) + LinesIn(Tail(fs))

\* a decisions read of the class, a std::exception leaving it as fault says
DecisionsRead ==
  \E decision \in DecisionTypes, fault \in LogFaults :
    LET scraped == scrapeSantaLog(Files, archived_lines, next_oldest_archive,
                                  decision, fault)
    IN /\ archived_lines' = scraped.archived_lines
       /\ next_oldest_archive' = scraped.next_oldest_archive
       /\ UNCHANGED <<log_file, archives>>
       /\ UNCHANGED table
       /\ UNCHANGED threads

\* santad writes a line to the live log
LogWrite ==
  /\ log_file.opens
  /\ Len(log_file.lines) + LinesIn(archives) < MaxLines
  /\ \E line \in LogLines :
       log_file' = [log_file EXCEPT !.lines = Append(@, line)]
  /\ UNCHANGED <<archives, archived_lines, next_oldest_archive>>
  /\ UNCHANGED table
  /\ UNCHANGED threads

\* the live log has grown and is rotated: it becomes <log>.0.gz, every
\* archive moves up by one index, and a new live log is begun
LogRotate ==
  /\ log_file.opens
  /\ log_file.lines # <<>>
  /\ Len(archives) < MaxArchives
  /\ archives' = <<LogFile(TRUE, TRUE, log_file.lines)>> \o archives
  /\ log_file' = LogFile(TRUE, TRUE, <<>>)
  /\ UNCHANGED <<archived_lines, next_oldest_archive>>
  /\ UNCHANGED table
  /\ UNCHANGED threads

\* the live log becomes unreadable for the extension, or readable again
LogAccessChanges ==
  /\ log_file' = [log_file EXCEPT !.opens = ~@]
  /\ UNCHANGED <<archives, archived_lines, next_oldest_archive>>
  /\ UNCHANGED table
  /\ UNCHANGED threads

\* one archive of an intact directory is damaged: it opens and does not
\* decode
ArchiveFails ==
  /\ \A i \in DOMAIN archives : archives[i].decodes
  /\ \E i \in DOMAIN archives :
       archives' = [archives EXCEPT ![i].decodes = FALSE]
  /\ UNCHANGED <<log_file, archived_lines, next_oldest_archive>>
  /\ UNCHANGED table
  /\ UNCHANGED threads

NextLog ==
  \/ DecisionsRead
  \/ LogWrite
  \/ LogRotate
  \/ LogAccessChanges
  \/ ArchiveFails

InitLog == InitThreads

SpecLog == InitLog /\ [][NextLog]_vars

(***************************************************************************)
(* The decisions reads step by step by concurrent callers.  No statement   *)
(* of scrapeSantaLog takes a lock: each access to archived_lines or to     *)
(* next_oldest_archive is a step of its own, and one archive is decoded    *)
(* and passed through scrapeStream in one step.  The frame of a read keeps *)
(* the cache and the index it found when it was called (start) and whether *)
(* another caller has taken a step since (overlapped).                     *)
(***************************************************************************)
\* the labels of a decisions read
ReadLabels ==
  {"read_live", "read_check", "read_replay", "read_clear", "read_index",
   "read_archive", "read_ret"}

\* the two callers that query the decisions tables at the same time
Readers == {1, 2}

\* the log directory the concurrent reads find: a live log and one archive,
\* or two archives
ReaderDirectories ==
  {[live |-> LogFile(TRUE, TRUE, <<L_allow_later>>),
    archives |-> <<LogFile(TRUE, TRUE, <<L_allow>>)>>],
   [live |-> LogFile(TRUE, TRUE, <<>>),
    archives |-> <<LogFile(TRUE, TRUE, <<L_allow>>), LogFile(TRUE, TRUE, <<L_deny>>)>>]}

\* the frame of a decisions read that has just been entered
ReadFrame(decision) ==
  [op |-> "decisions",
   decision |-> decision,
   start |-> [archived_lines |-> archived_lines,
              next_oldest_archive |-> next_oldest_archive],
   fault |-> "none",
   overlapped |-> FALSE,
   i |-> 0,
   ok |-> TRUE,
   response |-> <<>>]

\* caller c goes from label from to label to with the frame f; the reads
\* of the other callers have been overlapped by a step
GotoRead(c, from, to, f) ==
  /\ pc[c] = from
  /\ pc' = [pc EXCEPT ![c] = to]
  /\ frame' = [o \in Callers |->
                 IF o = c THEN f
                 ELSE IF pc[o] \in ReadLabels
                 THEN [frame[o] EXCEPT !.overlapped = TRUE]
                 ELSE frame[o]]
  /\ UNCHANGED mutex
  /\ UNCHANGED table
  /\ UNCHANGED <<log_file, archives>>

\* the read left by a std::exception: scrapeSantaLog returns false
Thrown(f, fault) == [f EXCEPT !.ok = FALSE, !.fault = fault]

\* a caller queries one of the two decisions tables
ReadCall(c) ==
  /\ \E decision \in DecisionTypes :
       GotoRead(c, "idle", "read_live", ReadFrame(decision))
  /\ UNCHANGED <<archived_lines, next_oldest_archive>>

\* scrapeCurrentLog(response, decision)
read_live(c) ==
  /\ pc[c] = "read_live"
  /\ \/ GotoRead(c, "read_live", "read_ret", Thrown(frame[c], "live"))
     \/ GotoRead(c, "read_live", "read_check",
                 [frame[c] EXCEPT !.response =
                    scrapeCurrentLog(log_file, frame[c].decision)])
  /\ UNCHANGED <<archived_lines, next_oldest_archive>>

\* if (!newArchiveFileExists())
read_check(c) ==
  /\ pc[c] = "read_check"
  /\ GotoRead(c, "read_check",
              IF newArchiveFileExists(archives, next_oldest_archive)
              THEN "read_clear" ELSE "read_replay",
              frame[c])
  /\ UNCHANGED <<archived_lines, next_oldest_archive>>

\* processArchivedLines(response); return true
read_replay(c) ==
  /\ pc[c] = "read_replay"
  /\ \/ GotoRead(c, "read_replay", "read_ret", Thrown(frame[c], "replay"))
     \/ GotoRead(c, "read_replay", "read_ret",
                 [frame[c] EXCEPT !.response = @ \o processArchivedLines(archived_lines)])
  /\ UNCHANGED <<archived_lines, next_oldest_archive>>

\* archived_lines.clear() waiting until no other read is between its clear
\* and its return
read_clear_exclusive(c) ==
  /\ pc[c] = "read_clear"
  /\ \A o \in Callers \ {c} : pc[o] \notin {"read_index", "read_archive", "read_ret"}
  /\ GotoRead(c, "read_clear", "read_index", [frame[c] EXCEPT !.i = 0])
  /\ archived_lines' = <<>>
  /\ UNCHANGED next_oldest_archive

\* archived_lines.clear()
read_clear(c) ==
  /\ pc[c] = "read_clear"
  /\ GotoRead(c, "read_clear", "read_index", [frame[c] EXCEPT !.i = 0])
  /\ archived_lines' = <<>>
  /\ UNCHANGED next_oldest_archive

\* next_oldest_archive = i
read_index(c) ==
  /\ pc[c] = "read_index"
  /\ GotoRead(c, "read_index", "read_archive", frame[c])
  /\ next_oldest_archive' = frame[c].i
  /\ UNCHANGED archived_lines

\* what the loop does with the archive scraped: the lines pushed to the
\* cache and ++i, or break
archive_scraped(c, scraped) ==
  \/ /\ scraped.ok
     /\ GotoRead(c, "read_archive", "read_index",
                 [frame[c] EXCEPT !.response = frame[c].response \o scraped.response,
                                  !.i = frame[c].i + 1])
     /\ archived_lines' = archived_lines \o scraped.archived
  \/ /\ ~scraped.ok
     /\ GotoRead(c, "read_archive", "read_ret", frame[c])
     /\ UNCHANGED archived_lines

\* if (!scrapeCompressedSantaLog(<log>.<i>.gz, response, decision)) break;
read_archive(c) ==
  /\ pc[c] = "read_archive"
  /\ archive_scraped(c, scrapeCompressedSantaLog(archives, frame[c].i, frame[c].decision))
  /\ UNCHANGED next_oldest_archive

\* decisionTablesGenerate hands the rows to the caller
ReadReturn(c) ==
  /\ GotoRead(c, "read_ret", "idle", NoFrame)
  /\ UNCHANGED <<archived_lines, next_oldest_archive>>

ReadStep(c) ==
  \/ read_live(c)
  \/ read_check(c)
  \/ read_replay(c)
  \/ read_clear(c)
  \/ read_index(c)
  \/ read_archive(c)
  \/ ReadReturn(c)

NextReaders ==
  \E c \in Readers :
    \/ ReadCall(c)
    \/ ReadStep(c)

\* the process has read no log yet and finds one of the directories
InitReaders ==
  /\ store = <<>>
  /\ rowid_to_pkey = EmptyMap
  /\ rule_list = EmptyMap
  /\ generator = 0
  /\ synthetic = {}
  /\ wrapped = FALSE
  /\ ThreadsIdle
  /\ archived_lines = <<>>
  /\ next_oldest_archive = 0
  /\ \E dir \in ReaderDirectories :
       /\ log_file = dir.live
       /\ archives = dir.archives

SpecReaders == InitReaders /\ [][NextReaders]_vars

(***************************************************************************)
(* Properties of the identity mapping.                                     *)
(***************************************************************************)
\* the outcomes a rules read can have in the current state when its refresh
\* succeeds
SuccessfulReads ==
  {o \in {generate(d, generator, store, env) : env \in RefreshEnvs(CollectFaults(Len(store)), d)} :
     o.refresh = "ok"}

\* the environments of a refresh whose collection meets no fault
FaultlessEnvs(m, store_rows) ==
  {env \in RefreshEnvs(CollectFaults(Len(store_rows)), m) :
     env.fault.stage = "none" /\ env.fault.close_ok}

\* the maps an outcome leaves, as PrivateData
Left(o) == [rowid_to_pkey |-> o.rowid_to_pkey, rule_list |-> o.rule_list]

\* C1: across successful refreshes, a primary key that is present in two
\* consecutive snapshots is mapped to the same rowID after the second
\* refresh as after the first.  The table stands as a refresh left it
\* (nothing synthesized since); every rowID whose key the next refresh
\* finds again is still mapped, to the same key, after that refresh.
C1_RowIDKeptAcrossRefreshes ==
  synthetic = {} =>
    \A o \in SuccessfulReads :
      \A r \in DOMAIN rowid_to_pkey :
        rowid_to_pkey[r] \in DOMAIN o.rule_list =>
          /\ r \in DOMAIN o.rowid_to_pkey
          /\ o.rowid_to_pkey[r] = rowid_to_pkey[r]

\* C2: from every reachable state and for every snapshot of the store, a
\* refresh run twice in a row against the unchanged snapshot leaves the same
\* rowID-to-primary-key mapping after the second run as after the first.
C2_RefreshTwiceSameMapping ==
  \A env1 \in FaultlessEnvs(d, store) :
    LET o1 == generate(d, generator, store, env1)
    IN \A env2 \in FaultlessEnvs(Left(o1), store) :
         generate(Left(o1), o1.generator, store, env2).rowid_to_pkey
           = o1.rowid_to_pkey

\* C3: in every reachable state the identity mapping is one-to-one: no two
\* distinct rowIDs of rowid_to_pkey carry the same primary key.
C3_MappingOneToOne ==
  \A r1, r2 \in DOMAIN rowid_to_pkey :
    rowid_to_pkey[r1] = rowid_to_pkey[r2] => r1 = r2

\* C4: in every reachable state every rowID of rowid_to_pkey maps to a
\* primary key that has a RuleRecord in rule_list, and so does every rowID
\* of the maps a rules read formats its rows from: the read never meets the
\* "RowID -> Primary key mismatch" branch.
C4_EveryRowIDHasRecord ==
  /\ \A r \in DOMAIN rowid_to_pkey : rowid_to_pkey[r] \in DOMAIN rule_list
  /\ \A env \in RefreshEnvs(CollectFaults(Len(store)), d) :
       LET o == generate(d, generator, store, env)
       IN o.refresh = "ok" =>
            /\ \A r \in DOMAIN o.rowid_to_pkey :
                 o.rowid_to_pkey[r] \in DOMAIN o.rule_list
            /\ Cardinality(o.rows) = Cardinality(DOMAIN o.rowid_to_pkey)

\* C4 witness: a table that refreshes and a synthesizing insert have filled,
\* with a rowID of either origin
C4_TableFilledBothWays ==
  /\ synthetic # {}
  /\ DOMAIN rowid_to_pkey \ synthetic # {}
  /\ store # <<>>

\* what one step may do to the mapping and the counter if no rowID is ever
\* to carry two keys: the counter does not go down, every rowID mapped
\* afterwards is below it, and a rowID mapped afterwards either was mapped
\* to the same key before or is one the counter had not reached before
RowIDsFreshInStep ==
  /\ ~RowIDLess(generator', generator)
  /\ \A r \in DOMAIN rowid_to_pkey' :
       /\ RowIDLess(r, generator')
       /\ \/ r \in DOMAIN rowid_to_pkey /\ rowid_to_pkey'[r] = rowid_to_pkey[r]
          \/ ~RowIDLess(r, generator)

\* C5 as stated: rowIDs are minted from the 32-bit counter in strictly
\* increasing order and, over the whole life of the process, no rowID is
\* handed out again or associated with a second primary key.
C5_RowIDNeverReused == [][RowIDsFreshInStep]_vars

\* C5 amended: the same, for as long as the 32-bit counter has not passed
\* 2^32 - 1.
C5_RowIDNeverReusedBeforeWrap == [][~wrapped' => RowIDsFreshInStep]_vars

\* C5 witness: the counter has not wrapped, the first rowID of the run is
\* abandoned and a rowID minted after it carries a key that has a record
C5_AbandonedAndMintedAnew ==
  /\ ~wrapped
  /\ \E r1, r2 \in {generator - 2, generator - 1} :
       /\ RowIDLess(r1, r2)
       /\ Minted(r1, FALSE) = 0
       /\ r1 \notin DOMAIN rowid_to_pkey
       /\ r2 \in DOMAIN rowid_to_pkey
       /\ rowid_to_pkey[r2] \in DOMAIN rule_list

(***************************************************************************)
(* Properties of a refresh whose collection goes wrong.                    *)
(***************************************************************************)
\* C6: when collectSantaRules returns false during a refresh, updateRules
\* reports failure and leaves rule_list and rowid_to_pkey exactly as they
\* were; so does the rules read, and every handler whose refresh failed.
C6_FailedCollectionLeavesMaps ==
  /\ \A env \in RefreshEnvs(CollectFaults(Len(store)), d) :
       LET collected == collectSantaRules(store, env.fault)
           u == updateRules(d, generator, collected, env.order)
           o == generate(d, generator, store, env)
       IN ~collected.ok =>
            /\ ~u.ok
            /\ u.rowid_to_pkey = rowid_to_pkey /\ u.rule_list = rule_list
            /\ o.status = "failure" /\ o.rows = FailureRows
            /\ Left(o) = d
  /\ \A env \in InsertEnvs(FailingFaults(store), d, generator, store) :
       ~collectSantaRules(store, env.fault).ok =>
         \A json \in TableRequests :
           LET o == insert(d, generator, store, json, env)
           IN o.refresh = "failed" => o.status = "failure" /\ Left(o) = d
  /\ \A env \in DeleteEnvs(FailingFaults(store), d) :
       ~collectSantaRules(store, env.fault).ok =>
         \A id \in DeleteRequests(rowid_to_pkey, generator) :
           LET o == delete_(d, generator, store, id, env)
           IN o.refresh = "failed" => o.status = "failure" /\ Left(o) = d

\* C6 witness: a filled table on which a rules read meets a failing
\* collection and hands back the failure row
C6_FailedReadOfFilledTable ==
  /\ rule_list # EmptyMap
  /\ rowid_to_pkey # EmptyMap
  /\ \E env \in RefreshEnvs(CollectFaults(Len(store)), d) :
       /\ ~collectSantaRules(store, env.fault).ok
       /\ generate(d, generator, store, env).rows = FailureRows

\* C7: if the row-enumeration query returns an error, collectSantaRules
\* returns false, and a rules read that meets the error leaves the rule
\* table and the mapping as they were.
C7_QueryErrorFailsCollection ==
  \A env \in RefreshEnvs(CollectFaults(Len(store)), d) :
    env.fault.stage = "exec" =>
      /\ ~collectSantaRules(store, env.fault).ok
      /\ Left(generate(d, generator, store, env)) = d

(***************************************************************************)
(* Properties of insert.                                                   *)
(***************************************************************************)
\* the RuleRecords of the rows of the store, in the order of the table
Snapshot(store_rows) == [i \in DOMAIN store_rows |-> rulesCallback(store_rows[i])]

\* the primary keys of a list of RuleRecords
KeysOf(rules) == {generatePrimaryKeyOfRule(rules[i]) : i \in DOMAIN rules}

\* the primary key of a row a rules read returned
KeyOfRow(row) == generatePrimaryKey(row.identifier, getTypeFromRuleName(row.type))

\* C8: whenever insert returns success with rowID r, r is in the identity
\* mapping insert leaves and resolves, through rowid_to_pkey and rule_list,
\* to a RuleRecord whose identifier, type and state are the requested ones.
C8_InsertedRowIDResolves ==
  \A env \in InsertEnvs(CollectFaults(Len(store)), d, generator, store) :
    \A json \in TableRequests :
      LET o == insert(d, generator, store, json, env)
          row == GetRowData(json).row
      IN o.status = "success" =>
           \E r \in DOMAIN o.rowid_to_pkey :
             /\ to_string(r) = o.id
             /\ o.rowid_to_pkey[r] \in DOMAIN o.rule_list
             /\ o.rule_list[o.rowid_to_pkey[r]].identifier = row.identifier
             /\ o.rule_list[o.rowid_to_pkey[r]].type = getTypeFromRuleName(row.type)
             /\ o.rule_list[o.rowid_to_pkey[r]].state = getStateFromRuleName(row.state)

\* C9: after an insert synthesized an entry for a key absent from the
\* snapshot, the next successful refresh leaves only records of the store's
\* snapshot in the rule table; the rule is listed, once and with the
\* store's values, iff the snapshot holds its key, and otherwise the
\* synthetic record and its rowID are gone.
C9_SyntheticEntryOverwritten ==
  \A s \in synthetic :
    (\A r \in DOMAIN rowid_to_pkey : rowid_to_pkey[r] = rowid_to_pkey[s] => r = s) =>
      \A o \in SuccessfulReads :
        LET key == rowid_to_pkey[s]
            snapshot == Snapshot(store)
            listed == {row \in o.rows : KeyOfRow(row) = key}
        IN /\ \A k \in DOMAIN o.rule_list : o.rule_list[k] \in Range(snapshot)
           /\ IF key \in KeysOf(snapshot)
              THEN /\ Cardinality(listed) = 1
                   /\ key \in DOMAIN o.rule_list
                   /\ \A row \in listed :
                        /\ row.identifier = o.rule_list[key].identifier
                        /\ row.state = getRuleStateName(o.rule_list[key].state)
                        /\ row.custom_message = o.rule_list[key].custom_message
              ELSE /\ s \notin DOMAIN o.rowid_to_pkey
                   /\ key \notin DOMAIN o.rule_list
                   /\ listed = {}

\* payloads that are no array of four fields, lack the identifier, the
\* state or the type, or name a type or a state outside the recognized sets
MalformedRequests == StructurallyBadRequests \cup BadEnumRequests

\* the environments of a handler that is to stop before its refresh:
\* santactl there or not, every outcome of the process, and a collection
\* that would meet no fault and find the old mapping in ascending order
EnvsBeforeRefresh(m, store_rows) ==
  {Env(present, proc, [stage |-> "none", rows |-> Len(store_rows), close_ok |-> TRUE],
       Ascending(DOMAIN m.rowid_to_pkey), <<>>) :
     present \in BOOLEAN, proc \in ProcessOutcomes}

\* C10: an insert of a malformed payload returns failure without invoking
\* santactl, without a refresh, and without changing rule_list,
\* rowid_to_pkey or the rowID counter.
C10_MalformedInsertRejected ==
  \A env \in EnvsBeforeRefresh(d, store) :
    \A json \in MalformedRequests :
      LET o == insert(d, generator, store, json, env)
      IN /\ o.status = "failure"
         /\ o.id = NoId
         /\ o.exec = <<>>
         /\ o.refresh = "none"
         /\ Left(o) = d
         /\ o.generator = generator

\* C10 witness: a filled table on which a malformed payload is rejected
\* although santactl is present and would have succeeded
C10_RejectedOnFilledTable ==
  /\ rule_list # EmptyMap
  /\ \E json \in MalformedRequests :
       \E env \in InsertEnvs(CollectFaults(Len(store)), d, generator, store) :
         /\ env.present
         /\ ProcessSucceeded(env.proc)
         /\ insert(d, generator, store, json, env).status = "failure"

(***************************************************************************)
(* Properties of the validation of an insert.                              *)
(***************************************************************************)
\* the states GetRowData recognizes
RecognizedStates == {S_whitelist, S_blacklist, S_allow, S_block}

\* a string of exactly 64 characters, each one of 0-9a-f
IsSha256Hex(identifier) ==
  /\ Len(identifier) = Sha256HexLength
  /\ identifier \in Seq(Range(HexDigits))

\* identifiers around the digest format: digests, strings one character
\* short and one long, a digest with one upper-case character, one with a
\* character past f, short strings and the empty string
DigestLikeIdentifiers ==
  {Sha256Id,
   Rep("0", Sha256HexLength - 1) \o <<"f">>,
   Rep("a", Sha256HexLength - 1),
   Rep("a", Sha256HexLength + 1),
   Rep("a", Sha256HexLength - 1) \o <<"A">>,
   <<"g">> \o Rep("a", Sha256HexLength - 1),
   ShortHexId, UpperId, <<>>}

\* an outcome that is a failure of a handler that invoked nothing, did not
\* refresh and left the maps and the counter as they are
RejectedUntouched(o) ==
  /\ o.status = "failure"
  /\ o.id = NoId
  /\ o.exec = <<>>
  /\ o.refresh = "none"
  /\ Left(o) = d
  /\ o.generator = generator

\* binary payloads with a recognized state and an identifier around the
\* digest format
BinaryRequests ==
  {Payload(Str(identifier), Str(state), Str(S_binary), Null) :
     identifier \in DigestLikeIdentifiers, state \in RecognizedStates}

\* the binary payloads whose identifier is no digest
NonDigestBinaryRequests ==
  {json \in BinaryRequests : ~IsSha256Hex(json.elems[1].s)}

\* GetRowData accepts a binary payload exactly when its identifier is a
\* digest
BinaryValidationExact ==
  \A json \in BinaryRequests :
    GetRowData(json).ok <=> IsSha256Hex(json.elems[1].s)

\* C11: for an insert of type binary with a recognized state, GetRowData
\* accepts the payload iff the identifier is exactly 64 characters of
\* 0-9a-f; with any other identifier the insert fails and santactl is not
\* invoked.
C11_BinaryIdentifierIsSha256 ==
  /\ BinaryValidationExact
  /\ \A env \in {e \in EnvsBeforeRefresh(d, store) : ProcessSucceeded(e.proc)} :
       \A json \in NonDigestBinaryRequests :
         RejectedUntouched(insert(d, generator, store, json, env))

\* C11 witness: on a filled table a binary insert whose identifier is one
\* character long of a digest is rejected although santactl is present and
\* would succeed, and the digest itself passes validation
C11_LongDigestRejectedOnFilledTable ==
  /\ rowid_to_pkey # EmptyMap
  /\ GetRowData(Payload(Str(Sha256Id), Str(S_allow), Str(S_binary), Null)).ok
  /\ \E env \in EnvsBeforeRefresh(d, store) :
       /\ env.present
       /\ ProcessSucceeded(env.proc)
       /\ insert(d, generator, store,
                 Payload(Str(Rep("a", Sha256HexLength + 1)), Str(S_allow),
                         Str(S_binary), Null),
                 env).status = "failure"

\* certificate payloads with a recognized state and an identifier around
\* the digest format
CertificateRequests ==
  {Payload(Str(identifier), Str(state), Str(S_certificate), Null) :
     identifier \in DigestLikeIdentifiers, state \in RecognizedStates}

\* C12: for an insert of type certificate, GetRowData requires the
\* identifier format of binary: a payload whose identifier is not exactly 64
\* characters of 0-9a-f fails validation, and its insert fails without
\* invoking santactl.
C12_CertificateIdentifierIsSha256 ==
  \A env \in EnvsBeforeRefresh(d, store) :
    \A json \in CertificateRequests :
      ~IsSha256Hex(json.elems[1].s) =>
        /\ ~GetRowData(json).ok
        /\ RejectedUntouched(insert(d, generator, store, json, env))

\* the environments of an insert whose collection meets no fault: santactl
\* missing, every outcome of the process, and after a successful process
\* every iteration order of the old and of the refreshed mapping
FaultlessInsertEnvs(m, gen, store_rows) ==
  LET orders == IterationOrders(m.rowid_to_pkey)
      faultless == [stage |-> "none", rows |-> Len(store_rows), close_ok |-> TRUE]
  IN {Env(FALSE, NoProcess, NoFault, <<>>, <<>>)}
     \cup {Env(TRUE, proc, NoFault, <<>>, <<>>) :
             proc \in {p \in ProcessOutcomes : ~ProcessSucceeded(p)}}
     \cup UNION {
            {Env(TRUE, proc, faultless, order, order2) :
               order2 \in IterationOrders(
                 updateRules(m, gen, collectSantaRules(store_rows, faultless),
                             order).rowid_to_pkey)} :
            proc \in {p \in ProcessOutcomes : ProcessSucceeded(p)},
            order \in orders}

\* identifier, type and message of the inserts compared under both names of
\* a state: a binary rule without a message, a rule of another type with a
\* message, and an identifier that fails validation
SynonymProbes ==
  {<<Sha256Id, S_binary, Null>>,
   <<ShortHexId, S_binary, Null>>,
   <<TeamId, S_teamid, Str(S_msg)>>}

\* the legacy and the current name of each state, the santactl argument and
\* the RuleEntry::State they stand for
StateSynonyms ==
  {[legacy |-> S_whitelist, current |-> S_allow, arg |-> S_optAllow, state |-> "Whitelist"],
   [legacy |-> S_blacklist, current |-> S_block, arg |-> S_optBlock, state |-> "Blacklist"]}

\* C13: for any identifier, type and message, an insert with state
\* whitelist and the same insert with state allow pass validation alike,
\* hand santactl the same arguments (--allow) and find or synthesize the
\* same row, a found one being of state Whitelist; likewise blacklist and
\* block (--block, Blacklist).
C13_StateSynonymsEquivalent ==
  \A env \in FaultlessInsertEnvs(d, generator, store) :
    \A p \in SynonymProbes :
      \A syn \in StateSynonyms :
        LET legacy == Payload(Str(p[1]), Str(syn.legacy), Str(p[2]), p[3])
            current == Payload(Str(p[1]), Str(syn.current), Str(p[2]), p[3])
            o1 == insert(d, generator, store, legacy, env)
            o2 == insert(d, generator, store, current, env)
            key == generatePrimaryKey(p[1], getTypeFromRuleName(p[2]))
        IN /\ GetRowData(legacy).ok = GetRowData(current).ok
           /\ o1 = o2
           /\ \A i \in DOMAIN o1.exec :
                o1.exec[i][1] = S_rule /\ o1.exec[i][2] = syn.arg
           /\ o1.status = "success" /\ o1.synth = {} =>
                o1.rule_list[key].state = syn.state

\* C13 witness: on a filled table an insert under the legacy name whitelist
\* runs santactl and finds the allow rule the store holds
C13_WhitelistFindsAllowRule ==
  /\ rowid_to_pkey # EmptyMap
  /\ \E env \in FaultlessInsertEnvs(d, generator, store) :
       LET o == insert(d, generator, store,
                       Payload(Str(Sha256Id), Str(S_whitelist), Str(S_binary), Null), env)
       IN /\ o.status = "success"
          /\ o.synth = {}
          /\ o.exec # <<>>

(***************************************************************************)
(* Properties of an insert whose external command is missing or fails.     *)
(***************************************************************************)
\* the payloads of InsertRequests that pass validation
ValidRequests == {json \in InsertRequests : GetRowData(json).ok}

\* C14: when santactl does not exist at kSantactlPath, a valid insert
\* returns failure at once ("santactl not found"), invokes no external
\* command, does not refresh and leaves rule_list, rowid_to_pkey and the
\* rowID counter unchanged, whatever the process would have yielded.
C14_MissingSantactlFailsInsert ==
  \A env \in EnvsBeforeRefresh(d, store) :
    ~env.present =>
      \A json \in ValidRequests :
        LET o == insert(d, generator, store, json, env)
        IN /\ RejectedUntouched(o)
           /\ o.message = Message("santactl not found", <<>>)

\* C14 witness: a filled table on which a valid payload is refused because
\* santactl is missing, although the process would have succeeded
C14_RefusedForMissingSantactl ==
  /\ rowid_to_pkey # EmptyMap
  /\ \E env \in EnvsBeforeRefresh(d, store) :
       /\ ~env.present
       /\ ProcessSucceeded(env.proc)
       /\ \E json \in ValidRequests :
            insert(d, generator, store, json, env).message
              = Message("santactl not found", <<>>)

\* C15: when ExecuteProcess fails or santactl exits with a non-zero status,
\* a valid insert returns failure (with the captured output after the fixed
\* text in the non-zero case), has run santactl once, performs no refresh,
\* mints no rowID and leaves rule_list and rowid_to_pkey unchanged.
C15_FailedSantactlFailsInsert ==
  \A env \in EnvsBeforeRefresh(d, store) :
    env.present /\ ~ProcessSucceeded(env.proc) =>
      \A json \in ValidRequests :
        LET o == insert(d, generator, store, json, env)
        IN /\ o.status = "failure"
           /\ o.id = NoId
           /\ Len(o.exec) = 1
           /\ o.refresh = "none"
           /\ o.synth = {}
           /\ o.generator = generator
           /\ Left(o) = d
           /\ o.message = IF env.proc.started
                          THEN Message("santactl command failed: ", env.proc.std_output)
                          ELSE Message("Failed to execute santactl process", <<>>)

\* C15 witness: a filled table on which a valid insert hands back the output
\* santactl printed before it exited with status 1
C15_OutputOfFailedSantactlReturned ==
  /\ rowid_to_pkey # EmptyMap
  /\ \E env \in EnvsBeforeRefresh(d, store) :
       /\ env.present
       /\ env.proc.started
       /\ env.proc.exit_code # 0
       /\ \E json \in ValidRequests :
            insert(d, generator, store, json, env).message.detail = S_someError

(***************************************************************************)
(* Properties of delete.                                                   *)
(***************************************************************************)
\* the rowIDs of the explored run that the mapping does not hold: those
\* minted and abandoned since, and those not minted yet
UnmappedRowIDs ==
  {r \in (0 - NearWrap - 1)..(MaxRowID + 1) : r \notin DOMAIN rowid_to_pkey}

\* C16: a delete whose rowID is not in rowid_to_pkey (never assigned, or
\* abandoned by an earlier refresh or delete) returns failure, invokes no
\* external command, does not refresh and changes neither map nor the
\* rowID counter.
C16_UnmappedRowIDFailsDelete ==
  LET envs == {env \in EnvsBeforeRefresh(d, store) : env.present}
  IN \A r \in UnmappedRowIDs :
       LET id == to_string(r)
       IN \A env \in envs :
            RejectedUntouched(delete_(d, generator, store, id, env))

\* C16 witness: the table holds a row, a rowID minted before is no longer
\* mapped, and a delete of it fails although santactl would succeed
C16_AbandonedRowIDRefused ==
  /\ rowid_to_pkey # EmptyMap
  /\ \E r \in UnmappedRowIDs :
       /\ RowIDLess(r, generator)
       /\ Minted(r, wrapped) >= 0
       /\ \E env \in EnvsBeforeRefresh(d, store) :
            /\ ProcessSucceeded(env.proc)
            /\ delete_(d, generator, store, to_string(r), env).status = "failure"

\* id texts that are no unsigned decimal integer: the empty string, texts
\* with a leading minus sign, digits followed by another character, and a
\* text without a digit
InvalidIds ==
  {<<>>, <<"-", "0">>, <<"-", "1">>, <<"1", "x">>, <<"0", " ">>, <<"x">>}

\* C17: a delete whose id is not an unsigned decimal integer with nothing
\* after it (the empty string, a leading minus sign, digits followed by
\* other characters) fails without a lookup in the mapping and without
\* invoking santactl, in every state of the mapping, also when rowID 0 is
\* assigned.
C17_InvalidIdFailsDelete ==
  LET envs == EnvsBeforeRefresh(d, store)
  IN \A id \in InvalidIds :
       \A env \in envs :
         RejectedUntouched(delete_(d, generator, store, id, env))

\* the ways a removal by santactl can fail
FailedRemovals == {p \in ProcessOutcomes : ~ProcessSucceeded(p)}

\* C18: when the removal by santactl fails and its captured output starts
\* with kMandatoryRuleDeletionError, what delete_ returns to its caller
\* differs from what it returns for any other failure of the removal.
C18_MandatoryRuleFailureDistinct ==
  \A r \in DOMAIN rowid_to_pkey :
    \A p1, p2 \in FailedRemovals :
      LET o1 == delete_(d, generator, store, to_string(r),
                        Env(TRUE, p1, NoFault, <<>>, <<>>))
          o2 == delete_(d, generator, store, to_string(r),
                        Env(TRUE, p2, NoFault, <<>>, <<>>))
      IN /\ StartsWith(p1.std_output, kMandatoryRuleDeletionError)
         /\ ~StartsWith(p2.std_output, kMandatoryRuleDeletionError)
         /\ o1.exec # <<>>
         /\ o2.exec # <<>>
         => Result(o1) # Result(o2)

(***************************************************************************)
(* Properties of update.                                                   *)
(***************************************************************************)
\* C19: in every state an update call returns failure, whatever the
\* request, invokes no external command, performs no refresh and leaves
\* rule_list, rowid_to_pkey and the rowID counter unchanged.
C19_UpdateAlwaysFails ==
  /\ RejectedUntouched(update(d, generator))
  /\ update(d, generator).rows = {}
  /\ update(d, generator).synth = {}

\* C19 witness: an update called on a filled table while the store holds
\* rules a refresh would read
C19_UpdateRefusedOnFilledTable ==
  /\ rowid_to_pkey # EmptyMap
  /\ rule_list # EmptyMap
  /\ store # <<>>
  /\ update(d, generator).status = "failure"

(***************************************************************************)
(* Properties of concurrent callers.                                       *)
(***************************************************************************)
\* caller c is between the first and the last step of a locked body
InBody(c) == pc[c] \in BodyLabels \/ (pc[c] = "ret" /\ mutex = c)

\* a caller inside a locked body holds the mutex, so no two callers are
\* inside a body at once
MutualExclusion ==
  /\ \A c \in Callers : InBody(c) => mutex = c
  /\ \A c1, c2 \in Callers : InBody(c1) /\ InBody(c2) => c1 = c2

\* a step taken while caller c is inside a body and that is not a step of c
\* leaves the two maps and the rowID counter as they are
NoInterference ==
  \A c \in Callers :
    InBody(c) /\ pc'[c] = pc[c] /\ frame'[c] = frame[c] =>
      UNCHANGED <<rowid_to_pkey, rule_list, generator>>

\* the whole handler of frame f run at once on the table it found when it
\* began, in the environment it met
WholeOperation(f) ==
  CASE f.op = "generate" -> generate(f.start, f.start.generator, f.seen, f.env)
    [] f.op = "insert" -> insert(f.start, f.start.generator, f.seen, f.json, f.env)
    [] f.op = "delete" -> delete_(f.start, f.start.generator, f.seen, f.id, f.env)
    [] OTHER -> update(d, generator)

\* what a caller has done when its steps are over is what the whole handler
\* does in one piece: its result, and the maps and the counter it leaves
\* (for a rules read: the maps it copied and the rows formatted from them)
EquivalentToWholeOperation ==
  \A c \in Callers :
    LET f == frame[c]
        o == WholeOperation(f)
    IN /\ pc[c] = "ret" /\ mutex = c =>
            /\ f.result = Result(o)
            /\ d = Left(o)
            /\ generator = o.generator
       /\ pc[c] = "generate_copy" /\ mutex = c =>
            /\ o.status = "success"
            /\ d = Left(o)
            /\ generator = o.generator
            /\ o.rows = generateRows(rowid_to_pkey, rule_list)
       /\ pc[c] = "ret" /\ mutex # c /\ f.op = "generate" =>
            /\ f.result.status = "success"
            /\ f.result.rows = generateRows(f.copies.rowid_to_pkey, f.copies.rule_list)
       /\ pc[c] = "ret" /\ f.op = "update" => f.result = Result(o)

\* C20: with concurrent callers on one table instance the locked bodies of
\* the rules read (refresh and copy), of insert and of delete are mutually
\* exclusive, no step of another caller changes the maps or the counter
\* between the first and the last step of a body, and every handler ends
\* with the result and the table the whole handler yields when run at once:
\* the execution is a sequence of whole operations.
C20_HandlersSerialized ==
  /\ [](MutualExclusion /\ EquivalentToWholeOperation)
  /\ [][NoInterference]_vars

\* C20 witness: a caller is in the middle of an insert, past its refresh,
\* while another caller that wants to read or delete waits for the mutex
C20_InsertInProgressOthersWait ==
  \E c1, c2 \in Callers :
    /\ pc[c1] = "insert_reconcile"
    /\ pc[c2] = "lock"
    /\ frame[c2].op \in {"generate", "delete"}
    /\ rowid_to_pkey # EmptyMap

(***************************************************************************)
(* Properties of failed reads.                                             *)
(***************************************************************************)
\* the stores a probed rules read collects
ProbeStores == {<<>>, <<ThreadStoreRow>>}

\* the tables a rules read over a probed store leaves, each with its counter
ProbeTables ==
  {[d |-> Left(o), generator |-> o.generator] :
     o \in {generate([rowid_to_pkey |-> EmptyMap, rule_list |-> EmptyMap], 0,
                     store_rows, env) :
             store_rows \in ProbeStores,
             env \in RefreshEnvs({[stage |-> "none", rows |-> 1, close_ok |-> TRUE]},
                                 [rowid_to_pkey |-> EmptyMap, rule_list |-> EmptyMap])}}

\* the rules reads over the probed tables and stores whose refresh fails
FailedRulesReads ==
  {o \in UNION {{generate(t.d, t.generator, store_rows, env) :
                   env \in RefreshEnvs(CollectFaults(Len(store_rows)), t.d)} :
                t \in ProbeTables, store_rows \in ProbeStores} :
     o.refresh = "failed"}

\* a decisions read of the current directory that fails
FailedDecisionsReads ==
  {scraped \in {scrapeSantaLog(Files, archived_lines, next_oldest_archive,
                               decision, fault) :
                  decision \in DecisionTypes, fault \in LogFaults} :
     ~scraped.ok}

\* C21: a rules read whose refresh fails returns exactly one row, the
\* sentinel row with status = failure, and no rule rows; a decisions read
\* whose ingestion fails returns zero rows.
C21_FailedReadsRows ==
  /\ \A o \in FailedRulesReads :
       /\ o.rows = {[status |-> "failure"]}
       /\ Cardinality(o.rows) = 1
  /\ \A scraped \in FailedDecisionsReads :
       decisionTablesGenerate(scraped) = <<>>

\* C21 witness: a rules read fails on a table that holds a rule, and a
\* decisions read fails after it has pushed the entries of the live log
C21_ReadsFailWithDataAtHand ==
  /\ \E t \in ProbeTables :
       /\ t.d.rule_list # EmptyMap
       /\ \E env \in RefreshEnvs(CollectFaults(1), t.d) :
            generate(t.d, t.generator, <<ThreadStoreRow>>, env).rows
              = {[status |-> "failure"]}
  /\ archived_lines # <<>>
  /\ \E scraped \in FailedDecisionsReads :
       /\ scraped.response # <<>>
       /\ decisionTablesGenerate(scraped) = <<>>

(***************************************************************************)
(* Properties of the filter and of the field extraction.                   *)
(***************************************************************************)
\* the line holds the text as a substring
Contains(line, text) ==
  \E i \in 1..(Len(line) - Len(text) + 1) :
    SubSeq(line, i, i + Len(text) - 1) = text

\* lines around the markers: both markers in one line, a marker in lower
\* case, a marker cut short, a marker at the start and at the end of the
\* line, a longer value that begins like a marker, and the empty line
FilterProbes ==
  {<<"[", "4", "]", " ", "s", "a", "n", "t", "a", "d", ":", " ", "d", "e", "c", "i", "s", "i", "o", "n", "=", "A", "L", "L", "O", "W", "|", "x", "=", "d", "e", "c", "i", "s", "i", "o", "n", "=", "D", "E", "N", "Y">>,
   <<"[", "5", "]", " ", "s", "a", "n", "t", "a", "d", ":", " ", "d", "e", "c", "i", "s", "i", "o", "n", "=", "a", "l", "l", "o", "w", "|", "p", "a", "t", "h", "=", "/", "a">>,
   <<"[", "6", "]", " ", "s", "a", "n", "t", "a", "d", ":", " ", "d", "e", "c", "i", "s", "i", "o", "n", "=", "D", "E", "N">>,
   <<"d", "e", "c", "i", "s", "i", "o", "n", "=", "D", "E", "N", "Y">>,
   <<"x", " ", "d", "e", "c", "i", "s", "i", "o", "n", "=", "A", "L", "L", "O", "W">>,
   <<"[", "7", "]", " ", "s", "a", "n", "t", "a", "d", ":", " ", "d", "e", "c", "i", "s", "i", "o", "n", "=", "A", "L", "L", "O", "W", "_", "C", "O", "M", "P", "I", "L", "E", "R", "|", "p", "=", "q">>,
   <<>>} \cup LogLines

\* the streams a read of the current directory scans, and the cache
StreamsAtHand ==
  {log_file.lines, archived_lines} \cup {archives[i].lines : i \in DOMAIN archives}

\* the filter of scrapeStream on single lines
FilterExactOnProbes ==
  \A line \in FilterProbes, decision \in DecisionTypes, save \in BOOLEAN :
    LET scraped == scrapeStream(<<line>>, save, decision)
    IN IF Contains(line, MarkerOf(decision))
       THEN scraped.response = <<LogEntryOf(line)>>
       ELSE scraped.response = <<>>

\* C22: when scanning a stream for decision class C, a line produces an
\* event if and only if it contains C's literal marker (decision=ALLOW or
\* decision=DENY) as a substring; a line containing neither marker produces
\* an event for neither class.
C22_EventIffMarker ==
  /\ FilterExactOnProbes
  /\ \A stream \in StreamsAtHand, decision \in DecisionTypes :
       LET marked == {i \in DOMAIN stream : Contains(stream[i], MarkerOf(decision))}
           scraped == scrapeStream(stream, FALSE, decision)
       IN /\ Len(scraped.response) = Cardinality(marked)
          /\ \A i \in DOMAIN stream :
               (i \in marked) <=> (scrapeStream(<<stream[i]>>, FALSE, decision).response # <<>>)

\* C22 witness: the live log holds a line with the ALLOW marker followed by
\* a line with neither marker; a scan for Allowed yields one event, the one
\* of the first line, and a scan for Denied none
C22_MarkedAndUnmarkedLineScanned ==
  /\ log_file.lines = <<L_allow, L_other>>
  /\ scrapeStream(log_file.lines, FALSE, "kAllowed").response = <<LogEntryOf(L_allow)>>
  /\ scrapeStream(log_file.lines, FALSE, "kDenied").response = <<>>

\* lines around the field format: a line without the preface, one without
\* a timestamp, keys that other lines do not have, a value without a
\* closing bar, a key without a value, and doubled equals signs
FieldProbes ==
  {<<"[", "8", "]", " ", "d", "e", "c", "i", "s", "i", "o", "n", "=", "A", "L", "L", "O", "W", "|", "p", "a", "t", "h", "=", "/", "p">>,
   <<"s", "a", "n", "t", "a", "d", ":", " ", "k", "=", "v", "|", "p", "a", "t", "h", "=", "/", "q">>,
   <<"[", "9", "]", " ", "s", "a", "n", "t", "a", "d", ":", " ", "a", "=", "b", "|", "c", "=", "d", "|">>,
   <<"[", "0", "]", " ", "s", "a", "n", "t", "a", "d", ":", " ", "t", "i", "m", "e", "s", "t", "a", "m", "p", "=", "t", "|", "r", "e", "a", "s", "o", "n", "=">>,
   <<"]", "[", " ", "s", "a", "n", "t", "a", "d", ":", " ", "k", "=", "=", "v">>,
   <<>>} \cup LogLines

\* the lines the log directory and the cache hold
LinesAtHand == UNION {Range(stream) : stream \in StreamsAtHand}

\* extracting a line into a map that holds the fields of another line, or
\* its own, yields what extracting it into an empty map yields
StatelessOn(lines) ==
  \A line \in lines :
    LET first == extractValues(line, EmptyMap)
    IN \A other \in lines :
         extractValues(line, extractValues(other, EmptyMap)) = first

StatelessOnProbes == StatelessOn(FieldProbes)

\* C29: field extraction is deterministic and stateless: for every line,
\* extracting it twice (including into a map that already holds fields of
\* another line) yields identical field maps.
C29_ExtractionStateless ==
  /\ StatelessOnProbes
  /\ StatelessOn(LinesAtHand)

\* C29 witness: the cache holds a line whose fields another line of the
\* directory does not have, and extracting the one into the map of the
\* other leaves none of the other's fields
C29_FieldsOfOtherLineGone ==
  /\ L_allow \in Range(archived_lines)
  /\ L_deny \in Range(log_file.lines)
  /\ S_reason \in DOMAIN extractValues(L_deny, EmptyMap)
  /\ S_reason \notin DOMAIN extractValues(L_allow, extractValues(L_deny, EmptyMap))
  /\ S_sha256 \in DOMAIN extractValues(L_allow, extractValues(L_deny, EmptyMap))

(***************************************************************************)
(* Properties of the decisions reads and the archive cache.                *)
(***************************************************************************)
\* the entries of the lines of a stream that hold the marker of the class
MatchingEntries(stream, decision) ==
  LET Marked(line) == Contains(line, MarkerOf(decision))
      marked == SelectSeq(stream, Marked)
  IN [i \in DOMAIN marked |-> LogEntryOf(marked[i])]

\* the first index whose archive does not open or does not decode
RECURSIVE FirstFailing(_, _)
FirstFailing(fs, i) ==
  IF i >= Len(fs) \/ ~fs[i + 1].opens \/ ~fs[i + 1].decodes THEN i
  ELSE FirstFailing(fs, i + 1)

\* the matching entries of the archives 0..n-1, one archive after the other
RECURSIVE ArchiveEntries(_, _, _)
ArchiveEntries(fs, n, decision) ==
  IF n = 0 THEN <<>>
  ELSE ArchiveEntries(fs, n - 1, decision) \o MatchingEntries(fs[n].lines, decision)

\* every line of the archives 0..n-1, one archive after the other
RECURSIVE ArchiveLines(_, _)
ArchiveLines(fs, n) ==
  IF n = 0 THEN <<>> ELSE ArchiveLines(fs, n - 1) \o fs[n].lines

\* the entries of the live log a read of the class returns
LiveEntries(decision) ==
  IF log_file.opens THEN MatchingEntries(log_file.lines, decision) ELSE <<>>

\* a decisions read of the class in the current state that meets no
\* exception
ReadNow(decision) ==
  scrapeSantaLog(Files, archived_lines, next_oldest_archive, decision, "none")

\* C23: when a read for class C finds no archive at index
\* next_oldest_archive, the cached lines it appends are re-filtered for C:
\* every event in the result comes from a line containing C's marker, even
\* when the cache was filled by an earlier read for the other class.
C23_ReplayRefilteredForClass ==
  \A decision \in DecisionTypes :
    ~newArchiveFileExists(archives, next_oldest_archive) =>
      ReadNow(decision).response
        = LiveEntries(decision) \o MatchingEntries(archived_lines, decision)

\* C24: given archives 0..n-1 cached and a new archive index n becoming
\* visible, the next read for class C clears the cache, rescans indices
\* 0,1,2,... until the first index that fails to open, and returns exactly
\* the C-matching events of the live log followed by the C-matching events
\* of every reachable archive in increasing index order, each source's
\* events in line order and each line contributing at most one event.
C24_RescanReturnsLiveThenArchives ==
  \A decision \in DecisionTypes :
    newArchiveFileExists(archives, next_oldest_archive) =>
      LET scraped == ReadNow(decision)
          reach == FirstFailing(archives, 0)
      IN /\ scraped.ok
         /\ scraped.next_oldest_archive = reach
         /\ scraped.response
              = LiveEntries(decision) \o ArchiveEntries(archives, reach, decision)
         /\ decisionTablesGenerate(scraped)
              = [i \in DOMAIN scraped.response |-> DecisionRow(scraped.response[i])]
         /\ scraped.archived_lines
              = scrapeSantaLog(Files, <<>>, next_oldest_archive, decision,
                               "none").archived_lines

\* C24 witness: archive 0 was cached, a rotation has made index 1 visible,
\* and the read returns an event of archive 0, then one of archive 1, and
\* leaves the index at 2
C24_NewIndexAfterRotation ==
  /\ next_oldest_archive = 1
  /\ archived_lines # <<>>
  /\ Len(archives) = 2
  /\ archives[1].lines # archives[2].lines
  /\ \E decision \in DecisionTypes :
       /\ ReadNow(decision).response
            = <<LogEntryOf(archives[1].lines[1]), LogEntryOf(archives[2].lines[1])>>
       /\ ReadNow(decision).next_oldest_archive = 2

\* C25: during a rescan, if archive i exists but fails to decompress, the
\* scan stops at i: the read still reports success, the events and cached
\* lines from archives 0..i-1 are kept, and no event or cached line from
\* archive i or any higher index is produced.
C25_ScanStopsAtUndecodableArchive ==
  \A decision \in DecisionTypes :
    LET i == FirstFailing(archives, 0)
        scraped == ReadNow(decision)
        before == scrapeSantaLog([live |-> log_file, archives |-> SubSeq(archives, 1, i)],
                                 <<>>, 0, decision, "none")
    IN /\ newArchiveFileExists(archives, next_oldest_archive)
       /\ i < Len(archives) /\ archives[i + 1].opens /\ ~archives[i + 1].decodes
       => /\ scraped.ok
          /\ scraped.next_oldest_archive = i
          /\ scraped.response = before.response
          /\ scraped.response
               = LiveEntries(decision) \o ArchiveEntries(archives, i, decision)
          /\ scraped.archived_lines = before.archived_lines

\* C25 witness: archive 0 decodes and holds a line of the class, archive 1
\* holds one too and does not decode; the read returns the event of archive
\* 0 alone and caches its line
C25_SecondArchiveUndecodable ==
  /\ Len(archives) = 2
  /\ archives[1].decodes /\ ~archives[2].decodes /\ archives[2].opens
  /\ newArchiveFileExists(archives, next_oldest_archive)
  /\ \E decision \in DecisionTypes :
       /\ MatchingEntries(archives[2].lines, decision) # <<>>
       /\ Len(ReadNow(decision).response) = 1
       /\ ReadNow(decision).archived_lines = archives[1].lines
       /\ ReadNow(decision).ok

\* C26: when the live log cannot be opened, a decisions read does not fail:
\* its live portion is empty and it still proceeds to the archive stage
\* (replay of the cache or rescan), returning the archive events and
\* reporting success.
C26_UnopenableLiveLogNotFatal ==
  ~log_file.opens =>
    \A decision \in DecisionTypes :
      LET scraped == ReadNow(decision)
          emptied == scrapeSantaLog([live |-> LogFile(TRUE, TRUE, <<>>),
                                     archives |-> archives],
                                    archived_lines, next_oldest_archive,
                                    decision, "none")
      IN /\ scraped.ok
         /\ scraped = emptied
         /\ Len(decisionTablesGenerate(scraped)) = Len(scraped.response)

\* C26 witness: the live log holds a line and does not open; a read replays
\* the cache and another state rescans, each returning archive events
C26_ArchivesReadWithoutLiveLog ==
  /\ ~log_file.opens
  /\ log_file.lines # <<>>
  /\ archived_lines # <<>>
  /\ \E decision \in DecisionTypes :
       /\ ReadNow(decision).ok
       /\ ReadNow(decision).response # <<>>

\* C30: during a rescan for class C, every line of every successfully
\* decoded archive is stored in archived_lines, whether or not it matches
\* C, so that a later read for the other class with no new archive returns
\* that class's archive events from the cache.
C30_RescanStoresEveryLine ==
  \A decision \in DecisionTypes :
    newArchiveFileExists(archives, next_oldest_archive) =>
      LET scraped == ReadNow(decision)
      IN /\ scraped.archived_lines
              = ArchiveLines(archives, scraped.next_oldest_archive)
         /\ \A other \in DecisionTypes :
              scrapeSantaLog(Files, scraped.archived_lines,
                             scraped.next_oldest_archive, other, "none").response
                = LiveEntries(other)
                    \o ArchiveEntries(archives, scraped.next_oldest_archive, other)

(***************************************************************************)
(* Properties of concurrent decisions reads.                               *)
(***************************************************************************)
\* the cache and the index a read of the class leaves when it runs as a
\* whole from the cache and the index g
AfterRead(g, decision, fault) ==
  LET scraped == scrapeSantaLog(Files, g.archived_lines, g.next_oldest_archive,
                                decision, fault)
  IN [archived_lines |-> scraped.archived_lines,
      next_oldest_archive |-> scraped.next_oldest_archive]

\* the cache and the index the two reads can leave when one runs as a whole
\* after the other, in either order, from the cache and the index g
SequentialOutcomes(g, first, second) ==
  {AfterRead(AfterRead(g, order[1], faults[1]), order[2], faults[2]) :
     order \in {<<first, second>>, <<second, first>>},
     faults \in LogFaults \X LogFaults}

\* the shared cache and index as they are
Globals ==
  [archived_lines |-> archived_lines, next_oldest_archive |-> next_oldest_archive]

\* a read that no step of another caller has overlapped has done what
\* scrapeSantaLog does as a whole
AloneAsWhole ==
  \A c \in Callers :
    pc[c] = "read_ret" /\ ~frame[c].overlapped =>
      LET f == frame[c]
          whole == scrapeSantaLog(Files, f.start.archived_lines,
                                  f.start.next_oldest_archive, f.decision, f.fault)
      IN /\ f.ok = whole.ok
         /\ f.ok => f.response = whole.response
         /\ Globals = AfterRead(f.start, f.decision, f.fault)

\* what the scrape of an archive can hand to the loop
ScrapeProbes ==
  {[ok |-> FALSE, response |-> <<>>, archived |-> <<>>],
   [ok |-> TRUE, response |-> <<>>, archived |-> <<>>],
   [ok |-> TRUE, response |-> <<LogEntryOf(L_allow)>>, archived |-> <<L_allow>>]}

\* C27: the archive cache (archived_lines) and the rotation index
\* (next_oldest_archive) are process-wide and unguarded: no read takes a
\* lock, and the test of the index, the clear, the index write and the
\* append of a read are never held back, whatever statement another read is
\* at, so that the clears, appends and index writes of two concurrent reads
\* interleave; only a read that nothing overlaps is sure to leave what the
\* read as a whole leaves.
C27_ReadsUnguarded ==
  /\ mutex = NoCaller
  /\ \A c \in Readers :
       /\ pc[c] = "read_check" => ENABLED read_check(c)
       /\ pc[c] = "read_clear" => ENABLED read_clear(c)
       /\ pc[c] = "read_index" => ENABLED read_index(c)
       /\ pc[c] = "read_archive" =>
            \A scraped \in ScrapeProbes : ENABLED archive_scraped(c, scraped)
  /\ AloneAsWhole

\* C27 witness: two reads called with the same cache and index have both
\* finished, and the cache and index they leave are those of no sequential
\* order of the two (the line of archive 0 is cached twice)
C27_CacheOfNoSequentialOrder ==
  /\ pc[1] = "read_ret" /\ pc[2] = "read_ret"
  /\ frame[1].ok /\ frame[2].ok
  /\ frame[1].start = frame[2].start
  /\ Globals \notin SequentialOutcomes(frame[1].start, frame[1].decision,
                                       frame[2].decision)
  /\ archived_lines = <<L_allow, L_allow>>

(***************************************************************************)
(* Properties of the external command under the table mutex.               *)
(***************************************************************************)
\* the statements at which a handler waits for santactl to exit
ExecLabels == {"insert_exec", "delete_exec"}

\* the handlers that take the table mutex
LockingOps == {"generate", "insert", "delete"}

\* the counter stays below the bound of the model, so that no statement of
\* a handler is held back by it
CounterBelowBound == generator < MaxRowID

\* while the command of caller h runs, h holds the mutex and goes on only
\* when ExecuteProcess returns, and no other caller gets past the wait for
\* the mutex
WhileCommandRuns ==
  \A h \in Callers :
    pc[h] \in ExecLabels =>
      /\ mutex = h
      /\ pc'[h] \in {pc[h], "insert_refresh", "delete_refresh", "ret"}
      /\ mutex' = h
      /\ \A c \in Callers \ {h} :
           /\ pc[c] = "lock" => pc'[c] = "lock"
           /\ pc[c] = "idle" => pc'[c] \in {"idle", "lock", "update_body"}
           /\ pc'[c] \notin BodyLabels

\* a handler that takes the mutex returns only through the wait for it
ReturnsThroughLock ==
  \A c \in Callers :
    /\ pc[c] = "idle" /\ pc'[c] # "idle" /\ frame'[c].op \in LockingOps => pc'[c] = "lock"
    /\ pc[c] = "lock" /\ pc'[c] # "lock" => mutex = NoCaller /\ mutex' = c

\* every call returns: no caller stays in a handler for ever
EveryCallReturns ==
  \A c \in Callers : []<>(pc[c] = "idle")

Undecodable(fs) == [i \in DOMAIN fs |-> LogFile(fs[i].opens, FALSE, <<>>)]

\* a read that finds no archive at the index leaves the cache and the index
\* alone and reads nothing of any archive
NoArchiveNoChange ==
  \A decision \in DecisionTypes, fault \in LogFaults :
    ~newArchiveFileExists(archives, next_oldest_archive) =>
      LET scraped == scrapeSantaLog(Files, archived_lines, next_oldest_archive,
                                    decision, fault)
      IN /\ scraped.archived_lines = archived_lines
         /\ scraped.next_oldest_archive = next_oldest_archive
         /\ scraped = scrapeSantaLog([live |-> log_file,
                                      archives |-> Undecodable(archives)],
                                     archived_lines, next_oldest_archive,
                                     decision, fault)

\* the cache a read leaves is the one it leaves when the live log is empty
LiveLogNotCached ==
  \A decision \in DecisionTypes, fault \in LogFaults :
    scrapeSantaLog(Files, archived_lines, next_oldest_archive, decision,
                   fault).archived_lines
      = scrapeSantaLog([live |-> LogFile(TRUE, TRUE, <<>>), archives |-> archives],
                       archived_lines, next_oldest_archive, decision,
                       fault).archived_lines

\* a step that changes the cache or the index starts where there is an
\* archive at the index
ChangedOnlyByRescan ==
  archived_lines' # archived_lines \/ next_oldest_archive' # next_oldest_archive
    => newArchiveFileExists(archives, next_oldest_archive)

\* C31: a decisions read that finds no archive at index next_oldest_archive
\* leaves archived_lines and next_oldest_archive unchanged and performs no
\* decompression; the cache is cleared and rebuilt only by a read that
\* finds an archive at that index, and lines of the live log are never
\* added to the cache by any read.
C31_CacheChangedOnlyByRescan ==
  /\ [](NoArchiveNoChange /\ LiveLogNotCached)
  /\ [][ChangedOnlyByRescan]_vars

\* C31 witness: the cache holds the line of an archive, the live log holds
\* a line of the same class, there is no archive at the index, and a read
\* returns the two events
C31_ReplayBesideLiveLine ==
  /\ archived_lines # <<>>
  /\ log_file.opens
  /\ log_file.lines # <<>>
  /\ archives # <<>>
  /\ ~newArchiveFileExists(archives, next_oldest_archive)
  /\ \E decision \in DecisionTypes :
       /\ Len(ReadNow(decision).response) = 2
       /\ ReadNow(decision).archived_lines = archived_lines
       /\ Len(archived_lines) = 1

\* the lines of the archives from+1..from+n that a scan of the class keeps,
\* one archive after the other
RECURSIVE KeptLines(_, _, _, _)
KeptLines(fs, from, n, decision) ==
  IF n = 0 THEN <<>>
  ELSE LET Marked(line) == Contains(line, MarkerOf(decision))
       IN KeptLines(fs, from, n - 1, decision)
            \o SelectSeq(fs[from + n].lines, Marked)

\* a rescan leaves the index at the smallest index whose archive does not
\* open or decode, and in the cache lines of the archives below it alone,
\* in the order of the indices
RescanLeavesIndexAtFailure ==
  \A decision \in DecisionTypes :
    newArchiveFileExists(archives, next_oldest_archive) =>
      LET scraped == ReadNow(decision)
          tried == scraped.next_oldest_archive
      IN /\ tried <= Len(archives)
         /\ tried < Len(archives) => ~archives[tried + 1].decodes
         /\ \A i \in 0..(tried - 1) : archives[i + 1].opens /\ archives[i + 1].decodes
         /\ scraped.archived_lines = KeptLines(archives, 0, tried, decision)

\* the cache covers as many archives as the index says: it holds what a
\* scan kept of next_oldest_archive archives that lie one after the other
\* in the directory, rotations having moved them up
IndexCountsCachedArchives ==
  /\ next_oldest_archive <= Len(archives)
  /\ \E decision \in DecisionTypes, moved \in 0..(Len(archives) - next_oldest_archive) :
       archived_lines = KeptLines(archives, moved, next_oldest_archive, decision)

\* C32: after every rescan, next_oldest_archive equals the last index the
\* scan tried, which is the smallest index whose archive failed to open or
\* decode, and archived_lines holds lines only from archives with a smaller
\* index, in increasing index order; starting from 0, next_oldest_archive
\* therefore always equals the number of archives covered by the cache.
C32_IndexIsNumberOfCachedArchives ==
  /\ RescanLeavesIndexAtFailure
  /\ IndexCountsCachedArchives

\* C32 witness: a rescan has covered two archives holding different lines
\* of one class; the index is 2 and the cache holds the line of archive 0
\* before the line of archive 1
C32_TwoArchivesCachedInOrder ==
  /\ next_oldest_archive = 2
  /\ Len(archives) = 2
  /\ archives[1].lines # archives[2].lines
  /\ archived_lines = archives[1].lines \o archives[2].lines
  /\ Len(archived_lines) = 2

(***************************************************************************)
(* Properties of the timestamp.                                            *)
(***************************************************************************)
\* the timestamp extracted from the line
TimestampOf(line) == MapRead(extractValues(line, EmptyMap), S_timestamp)

\* the first '[' of the line comes before its first ']'
WellFormedSpan(line) ==
  /\ Find(line, <<"[">>, 0) # NPos
  /\ Find(line, <<"]">>, 0) # NPos
  /\ Find(line, <<"[">>, 0) < Find(line, <<"]">>, 0)

\* C33: a line yields a non-empty timestamp only when it contains a
\* well-formed bracket span, i.e. its first '[' precedes its first ']';
\* when either bracket is missing or the first ']' occurs before the first
\* '[', the extracted timestamp is empty and no error is raised.
C33_TimestampOnlyFromWellFormedSpan ==
  \A line \in FieldProbes \cup LinesAtHand :
    ~WellFormedSpan(line) => TimestampOf(line) = <<>>

(***************************************************************************)
(* Properties of the rows of a rules read.                                 *)
(***************************************************************************)
\* caller c is in a rules read past its locked scope
Formatting(c) ==
  /\ pc[c] \in {"generate_format", "ret"}
  /\ frame[c].op = "generate"
  /\ mutex # c

\* the rows a finished rules read returns are those of its copies
RowsAreOfCopies ==
  \A c \in Callers :
    Formatting(c) /\ pc[c] = "ret" =>
      /\ frame[c].result.status = "success"
      /\ frame[c].result.rows
           = generateRows(frame[c].copies.rowid_to_pkey, frame[c].copies.rule_list)

\* the copies are the maps as the refresh of the read left them: no step
\* changes the maps between the refresh and the copy, the copy is taken
\* under the mutex, and no step changes the copies afterwards
CopiesAreOfOwnRefresh ==
  \A c \in Callers :
    /\ pc[c] = "generate_copy" =>
         /\ mutex = c
         /\ pc'[c] = "generate_copy" => UNCHANGED <<rowid_to_pkey, rule_list>>
         /\ pc'[c] # "generate_copy" =>
              /\ pc'[c] = "generate_format"
              /\ frame'[c].copies = d
              /\ mutex' = NoCaller
    /\ Formatting(c) /\ pc'[c] # "idle" =>
         /\ Formatting(c)'
         /\ frame'[c].copies = frame[c].copies

\* C34: a rules read copies rule_list and rowid_to_pkey while holding the
\* mutex and formats rows from the copies after releasing it: the rows it
\* returns always correspond to the single state that existed right after
\* its own refresh, even when another caller's insert or delete changes the
\* shared maps while the rows are being formatted.
C34_RowsFromCopiesOfOwnRefresh ==
  /\ []RowsAreOfCopies
  /\ [][CopiesAreOfOwnRefresh]_vars

\* C34 witness: a rules read has formatted the row of its copies, and the
\* table has meanwhile been emptied by the refresh of another caller
C34_TableChangedWhileFormatting ==
  \E c \in Callers :
    /\ Formatting(c) /\ pc[c] = "ret"
    /\ frame[c].copies.rowid_to_pkey # EmptyMap
    /\ frame[c].result.rows # {}
    /\ rowid_to_pkey = EmptyMap
    /\ rule_list = EmptyMap

(***************************************************************************)
(* Properties of ids of 2^32 and above.                                    *)
(***************************************************************************)
\* the decimal text of 2^32 + r for r in 0..3: 4294967296 .. 4294967299
DecimalAbove32Bits(r) ==
  <<"4", "2", "9", "4", "9", "6", "7", "2", "9", DecDigits[r + 7]>>

\* C35: a delete issues an external removal only for the rule whose rowID
\* equals the decimal value of the given id: an id whose value is 2^32 or
\* larger never matches a rowID in the mapping (it is not reduced modulo
\* 2^32 to another rule's rowID) and fails without invoking the external
\* command.
C35_IdAbove32BitsFailsDelete ==
  \A r \in 0..3 :
    \A env \in EnvsBeforeRefresh(d, store) :
      RejectedUntouched(delete_(d, generator, store, DecimalAbove32Bits(r), env))

(***************************************************************************)
(* Properties of the rows and the records of the snapshot.                 *)
(***************************************************************************)
\* the columns a rules read shows of a record
ShownOf(rule) ==
  [identifier |-> rule.identifier,
   state |-> getRuleStateName(rule.state),
   type |-> getRuleTypeName(rule.type),
   custom_message |-> rule.custom_message]

\* the columns of a row but its rowid
ShownIn(row) ==
  [identifier |-> row.identifier, state |-> row.state, type |-> row.type,
   custom_message |-> row.custom_message]

\* C36: after a successful refresh, a rules read returns exactly one row
\* per record of the snapshot, each carrying that record's identifier,
\* type, state and message; this includes snapshots in which two records
\* share a primary key (same identifier with two type codes that both map
\* to the same type name, e.g. two unrecognized codes).
C36_OneRowPerRecord ==
  \A env \in FaultlessEnvs(d, store) :
    LET rows == generate(d, generator, store, env).rows
        records == Snapshot(store)
    IN /\ Cardinality(rows) = Len(records)
       /\ {ShownIn(row) : row \in rows} = {ShownOf(records[i]) : i \in DOMAIN records}

(***************************************************************************)
(* Properties of an insert against the store.                              *)
(***************************************************************************)
\* the insert ran santactl and santactl exited with status zero
AddCompleted(o, env) ==
  /\ env.present
  /\ o.exec # <<>>
  /\ ProcessSucceeded(env.proc)

\* C37: whenever insert returns a failure status, no external add command
\* completed with exit status zero during that call: in particular, if the
\* external command succeeded but the following refresh failed, the caller
\* is not told 'failure' while the external store has been changed.
C37_FailureMeansNothingAdded ==
  \A env \in InsertEnvs(FaultsInEffect(store), d, generator, store) :
    \A json \in TableRequests :
      LET o == insert(d, generator, store, json, env)
      IN o.status = "failure" => ~AddCompleted(o, env)

\* the rule of the payload json is held by the store, with its identifier,
\* type and state, and rowID r carries its primary key
PresentAndMapped(json, r) ==
  LET row == GetRowData(json).row
      enum_type == getTypeFromRuleName(row.type)
      records == Snapshot(store)
  IN /\ GetRowData(json).ok
     /\ \E i \in DOMAIN records :
          /\ records[i].identifier = row.identifier
          /\ records[i].type = enum_type
          /\ records[i].state = getStateFromRuleName(row.state)
     /\ r \in DOMAIN rowid_to_pkey
     /\ rowid_to_pkey[r] = generatePrimaryKey(row.identifier, enum_type)

\* the store holds the keys it held when the mapping was last rebuilt
StoreAsMapped ==
  KeysOf(Snapshot(store)) = {rowid_to_pkey[r] : r \in DOMAIN rowid_to_pkey}

\* the environments of an insert whose santactl succeeds and whose
\* collection meets no fault
SucceedingInsertEnvs(m, gen, store_rows) ==
  {env \in FaultlessInsertEnvs(m, gen, store_rows) :
     env.present /\ ProcessSucceeded(env.proc)}

\* C38: inserting a rule whose identifier, type and state are already
\* present in the store and mapped to rowID r (store otherwise unchanged,
\* external command succeeds) returns r, mints no new rowID and leaves the
\* identity mapping unchanged; repeating the same successful insert returns
\* the same rowID.
C38_ReinsertReturnsMappedRowID ==
  StoreAsMapped =>
    \A json \in TableRequests :
      \A r \in DOMAIN rowid_to_pkey :
        PresentAndMapped(json, r) =>
          \A env \in SucceedingInsertEnvs(d, generator, store) :
            LET o == insert(d, generator, store, json, env)
            IN /\ o.status = "success"
               /\ o.id = to_string(r)
               /\ o.generator = generator
               /\ o.rowid_to_pkey = rowid_to_pkey
               /\ \A again \in SucceedingInsertEnvs(Left(o), o.generator, store) :
                    insert(Left(o), o.generator, store, json, again).id = o.id

(***************************************************************************)
(* Properties of a delete that follows an insert.                          *)
(***************************************************************************)
\* the deletes of the row a successful insert o returned, before anything
\* else touches the table: delete_ builds and runs its command before it
\* refreshes, so every outcome of the process is taken and one refresh
DeletesOf(o) ==
  {delete_(Left(o), o.generator, store, o.id, env) :
     env \in EnvsBeforeRefresh(Left(o), store)}

\* the arguments that remove the rule an add of this row targets: --remove
\* in place of the state, the same identifier and the same type flag
RemovalOf(row) == insertArgs(S_optRemove, row.type, row.identifier, <<>>)

\* valid payloads of every rule type: the binary rule in both states, and a
\* certificate, a team, a signing and a cdhash rule
TypedRequests ==
  {json \in IdentifierRequests \cup TableRequests : GetRowData(json).ok}

\* C39: for every rowID returned by a successful insert of (identifier,
\* type), a following delete of that rowID invokes the external command
\* with --remove and the same identifier and the same type-specific flag as
\* the add used (no type flag for binary, --certificate, --teamid,
\* --signingid or --cdhash otherwise).  An insert succeeds only after
\* santactl exited 0 and the collection met no fault that fails it.
C39_DeleteTargetsInsertedRule ==
  \A env \in SucceedingInsertEnvs(d, generator, store) :
    \A json \in TypedRequests :
      LET o == insert(d, generator, store, json, env)
          row == GetRowData(json).row
      IN o.status = "success" =>
           /\ \E state_arg \in {S_optAllow, S_optBlock} :
                o.exec = <<insertArgs(state_arg, row.type, row.identifier,
                                      row.custom_message)>>
           /\ \A removed \in DeletesOf(o) : removed.exec = <<RemovalOf(row)>>

\* C39 witness: on a filled table the insert of a team rule synthesizes a
\* row, and the delete of the rowID it returned runs santactl rule --remove
\* with the team identifier and --teamid and succeeds
C39_TeamRuleRemovedByItsRowID ==
  /\ rowid_to_pkey # EmptyMap
  /\ \E env \in SucceedingInsertEnvs(d, generator, store) :
       LET o == insert(d, generator, store,
                       Payload(Str(TeamId), Str(S_block), Str(S_teamid), Str(S_msg)), env)
       IN /\ o.status = "success"
          /\ o.synth # {}
          /\ \E removed \in DeletesOf(o) :
               /\ removed.status = "success"
               /\ removed.exec = <<<<S_rule, S_optRemove, S_optIdentifier, TeamId,
                                     S_dashes \o S_teamid>>>>

====
